---- MODULE Spec2Model ----
(***************************************************************************)
(* Streaming response translator of the lorelai chat application.          *)
(*                                                                         *)
(*   streamFoundryText            src/middleware.ts:104-300                *)
(*   extractReasoningFromContent  src/lib/azure-foundry/reasoning.ts:10-33 *)
(*   POST (chat route)            src/app/(chat)/api/chat/route.ts         *)
(*   createFoundryUIMessageStream src/lib/azure-foundry/ui-message-stream.ts*)
(*                                                                         *)
(* Strings are sequences of tokens.  The tags <thinking> and </thinking>   *)
(* are the tokens "O" and "C", "s" is a whitespace character, "nn" is the  *)
(* blank line "\n\n" and every other token is an ordinary character.       *)
(***************************************************************************)
EXTENDS Integers, Sequences, FiniteSets, TLC

\* ------------------------------------------------------------------ bounds
\* Number of chunks one upstream stream delivers.
MaxChunks == 2
\* Total number of content tokens one upstream stream delivers.
MaxContentLen == 4
\* Number of chunks an arbitrary execute writes or merges.
MaxFrames == 3
\* Nesting depth of the schemas given to zodToJsonSchema.
MaxDepth == 2

\* ------------------------------------------------------- string utilities
IsSpace(t) == t \in {"s", "nn"}

RECURSIVE TrimLeft(_)
TrimLeft(s) ==
  IF s = <<>> THEN <<>>
  ELSE IF IsSpace(Head(s)) THEN TrimLeft(Tail(s)) ELSE s

RECURSIVE TrimRight(_)
TrimRight(s) ==
  IF s = <<>> THEN <<>>
  ELSE IF IsSpace(s[Len(s)]) THEN TrimRight(SubSeq(s, 1, Len(s) - 1)) ELSE s

\* String.prototype.trim
Trim(s) == TrimRight(TrimLeft(s))

RECURSIVE Concat(_)
Concat(ss) == IF ss = <<>> THEN <<>> ELSE Head(ss) \o Concat(Tail(ss))

RECURSIVE Join(_, _)
\* Array.prototype.join
Join(ss, sep) ==
  IF ss = <<>> THEN <<>>
  ELSE IF Len(ss) = 1 THEN ss[1]
  ELSE ss[1] \o sep \o Join(Tail(ss), sep)

\* Smallest position >= from holding token t, 0 when there is none.
FirstAt(s, t, from) ==
  LET P == {i \in from..Len(s) : s[i] = t}
  IN IF P = {} THEN 0 ELSE CHOOSE i \in P : \A j \in P : i <= j

RECURSIVE SpansFrom(_, _)
\* The matches of /<thinking>([\s\S]*?)<\/thinking>/g from position `from`:
\* leftmost opening tag, lazily extended to the first closing tag after it.
SpansFrom(s, from) ==
  LET o == FirstAt(s, "O", from)
      c == IF o = 0 THEN 0 ELSE FirstAt(s, "C", o + 1)
  IN IF o = 0 \/ c = 0 THEN <<>>
     ELSE <<<<o, c>>>> \o SpansFrom(s, c + 1)

Spans(s) == SpansFrom(s, 1)

\* match.replace(/<\/?thinking>/g, "")
StripTags(s) == SelectSeq(s, LAMBDA t : t \notin {"O", "C"})

InSpan(sp, i) == \E k \in 1..Len(sp) : sp[k][1] <= i /\ i <= sp[k][2]

RECURSIVE KeepOutside(_, _, _)
KeepOutside(s, sp, i) ==
  IF i > Len(s) THEN <<>>
  ELSE (IF InSpan(sp, i) THEN <<>> ELSE <<s[i]>>) \o KeepOutside(s, sp, i + 1)

\* content.replace(thinkingRegex, "")
RemoveSpans(s) == KeepOutside(s, Spans(s), 1)

\* matches.map((match) => match.replace(/<\/?thinking>/g, "").trim())
SpanInners(s) ==
  LET sp == Spans(s)
  IN [k \in 1..Len(sp) |-> Trim(StripTags(SubSeq(s, sp[k][1], sp[k][2])))]

\* A reasoning of <<>> is falsy in the caller, as null is; `matched` tells
\* the two apart.
extractReasoningFromContentNoTrim(content) ==
  IF Spans(content) # <<>>
  THEN [matched |-> TRUE,
        reasoning |-> Join(SpanInners(content), <<"nn">>),
        text |-> RemoveSpans(content)]
  ELSE [matched |-> FALSE, reasoning |-> <<>>, text |-> content]

extractReasoningFromContent(content) ==
  IF Spans(content) # <<>>
  THEN [matched |-> TRUE,
        reasoning |-> Join(SpanInners(content), <<"nn">>),
        text |-> Trim(RemoveSpans(content))]
  ELSE [matched |-> FALSE, reasoning |-> <<>>, text |-> content]

\* ------------------------------------------------------------------ events
NoUsage == [present |-> FALSE, promptTokens |-> 0, completionTokens |-> 0,
            totalTokens |-> 0]

\* StreamChunk, with every optional field present and blank when unused.
Ev(type) ==
  [type |-> type, delta |-> <<>>, id |-> "", name |-> "", arguments |-> <<>>,
   result |-> "", isError |-> FALSE, finishReason |-> "", usage |-> NoUsage]

TextDelta(t) == [Ev("text-delta") EXCEPT !.delta = t]
ReasoningDelta(t) == [Ev("reasoning-delta") EXCEPT !.delta = t]
ToolCallEv(tc) ==
  [Ev("tool-call") EXCEPT !.id = tc.id, !.name = tc.name,
                          !.arguments = tc.arguments]
ToolResultEv(id, result, isError) ==
  [Ev("tool-result") EXCEPT !.id = id, !.result = result, !.isError = isError]
FinishEv(reason, usage) ==
  [Ev("finish") EXCEPT !.finishReason = reason, !.usage = usage]

\* ------------------------------------------------------------------ chunks
\* One upstream chunk: choices[0] may be missing; delta.reasoning_content,
\* delta.content, delta.tool_calls, finish_reason and usage are optional
\* (empty when absent).
Chunk(hasChoice, reasoning, content, toolCalls, finish, usage) ==
  [hasChoice |-> hasChoice, reasoning_content |-> reasoning,
   content |-> content, tool_calls |-> toolCalls, finish_reason |-> finish,
   usage |-> usage]

\* One tool-call fragment: index, optional id, optional function.name and
\* optional function.arguments (empty when absent).
Frag(index, id, name, arguments) ==
  [index |-> index, id |-> id, name |-> name, arguments |-> arguments]

\* ------------------------------------------------- tool-call accumulation
\* A JavaScript Map iterates in insertion order: the table is the sequence
\* of its entries in insertion order, each entry keyed by `index`.
MapHas(m, index) == \E k \in 1..Len(m) : m[k].index = index

MapPos(m, index) == CHOOSE k \in 1..Len(m) : m[k].index = index

\* Map.prototype.set: an existing key keeps its place in the order.
MapSet(m, index, entry) ==
  IF MapHas(m, index)
  THEN [m EXCEPT ![MapPos(m, index)] = entry]
  ELSE Append(m, entry)

\* One fragment folded into the table, with assignment where the code appends.
AccumulateFragmentAssign(m, f) ==
  IF f.id # ""
  THEN MapSet(m, f.index,
              [index |-> f.index, id |-> f.id, name |-> f.name,
               arguments |-> f.arguments])
  ELSE IF MapHas(m, f.index) /\ f.arguments # <<>>
       THEN [m EXCEPT ![MapPos(m, f.index)].arguments = f.arguments]
       ELSE m

\* One fragment folded into the table.
AccumulateFragment(m, f) ==
  IF f.id # ""
  THEN MapSet(m, f.index,
              [index |-> f.index, id |-> f.id, name |-> f.name,
               arguments |-> f.arguments])
  ELSE IF MapHas(m, f.index) /\ f.arguments # <<>>
       THEN [m EXCEPT ![MapPos(m, f.index)].arguments = @ \o f.arguments]
       ELSE m

RECURSIVE AccumulateAll(_, _)
\* for (const toolCall of delta.tool_calls)
AccumulateAll(m, fs) ==
  IF fs = <<>> THEN m
  ELSE AccumulateAll(AccumulateFragment(m, Head(fs)), Tail(fs))

\* ------------------------------------------------------------------- state
VARIABLES
  tPc,               \* streamFoundryText: "off", "stream", "calls", "await",
                     \*   "done" (generator returned), "thrown" (it threw)
  hasHandler,        \* options.onToolCall is provided
  currentToolCalls,  \* the Map of accumulated tool calls
  textBuffer,        \* textBuffer
  reasoningBuffer,   \* reasoningBuffer
  events,            \* the StreamChunks yielded so far, in order
  toolIdx,           \* position of the iteration over currentToolCalls
  pendingFinish,     \* the chunk whose finish_reason is being handled
  nChunks,           \* chunks delivered by the upstream stream so far
  contentUsed,       \* content tokens delivered by the upstream stream so far
  inputs,            \* history: the reasoning_content and content delivered
  round,             \* history: the number of finish_reason chunks handled
  seen,              \* history: per position, the fragments received for it
  callLog,           \* history: one entry per tool-call event yielded
  outcomes,          \* history: one entry per completed onToolCall
  upstreamFailed     \* history: the upstream stream raised

tvars == <<tPc, hasHandler, currentToolCalls, textBuffer, reasoningBuffer,
           events, toolIdx, pendingFinish, nChunks, contentUsed, inputs, round,
           seen, callLog, outcomes, upstreamFailed>>

VARIABLES
  uPc,             \* start(): "off", "execute", "onFinish", "closed", "errored"
  hasOnFinish,     \* options.onFinish is provided
  ctrl,            \* the controller: "open", "closed", "errored"
  out,             \* the chunks enqueued on the controller, in order
  lateEnqueues,    \* history: enqueue calls made after close() or error()
  pump,            \* chunks the stream given to merge() has yet to produce
  messages,        \* messages
  currentMessage,  \* currentMessage, <<>> for null, else <<message>>
  onFinishArgs,    \* history: the message list of every onFinish call
  rPc,             \* execute of the chat route: "off", "create", "primary",
                   \*   "tools", "continuation", "title", "returned"
  approval,        \* isToolApprovalFlow
  titlePending,    \* titlePromise is not null
  rCalls,          \* currentToolCalls of the route
  rIdx,            \* position of the iteration over rCalls
  toolResults,     \* toolResults
  requests,        \* history: the message list of every upstream request
  executed,        \* history: the tool executions started, in order
  primaryCalls,    \* history: the calls accumulated when the primary stream ended
  rN,              \* chunks delivered to the route so far
  rFailed,         \* history: where the upstream source failed, "" if nowhere
  rFinish          \* history: the last finish_reason of the primary stream

uvars == <<uPc, hasOnFinish, ctrl, out, lateEnqueues, pump, messages,
           currentMessage, onFinishArgs>>

rvars == <<rPc, approval, titlePending, rCalls, rIdx, toolResults, requests,
           executed, primaryCalls, rN, rFailed, rFinish>>

VARIABLES
  cancelled,       \* the client has cancelled the response body
  rErrMsg          \* history: the message of the exception the upstream raised

nvars == <<cancelled, rErrMsg>>

VARIABLES
  oPc,             \* streamFoundryObject: "off", "stream", "done", "thrown"
  fullContent,     \* fullContent
  oEvents,         \* the events yielded so far, in order
  oText,           \* history: the text the upstream is delivering
  oSent,           \* history: the number of tokens of oText delivered
  oFrags,          \* history: the number of content fragments delivered
  oFinishes,       \* history: the number of finish_reason chunks delivered
  oParses          \* history: the number of JSON.parse calls made

ovars == <<oPc, fullContent, oEvents, oText, oSent, oFrags, oFinishes,
           oParses>>

VARIABLES
  tools,           \* ToolRegistry.tools: the Map, as its entries in order
  toolName,        \* per tool object, its mutable `name` field
  lastReg,         \* history: per name, the tool object last registered
  invoked,         \* history: the tool objects whose execute was called
  lastExec         \* history: the last ToolRegistry.execute call

gvars == <<tools, toolName, lastReg, invoked, lastExec>>

VARIABLES
  zPc,             \* zodToJsonSchema: "off", "ready" (called), "done"
  zIn,             \* the schema given to zodToJsonSchema
  zOut             \* its return value

zvars == <<zPc, zIn, zOut>>

xvars == <<ovars, gvars, zvars>>

VARIABLES
  sPc,             \* requestSuggestions: "off", "loop", "saved", "returned"
  hasUser,         \* session.user?.id is set
  sPos,            \* events of the object stream consumed so far
  suggestions,     \* suggestions
  sWrites,         \* history: the data-suggestion events written, in order
  saved            \* history: the suggestions given to saveSuggestions

svars == <<sPc, hasUser, sPos, suggestions, sWrites, saved>>

VARIABLES
  sideMode,        \* consumeSseStream: "never" reads, "reads", "failed"
  teeFwd,          \* chunks the tee has read from the stream and enqueued
                   \*   on both branches
  sideGot,         \* chunks the side consumer has read from its branch
  clientRecv,      \* the chunks the client has read from the response body
  clientState      \* the response body as the client sees it: "open",
                   \*   "closed", "errored"

evars == <<sideMode, teeFwd, sideGot, clientRecv, clientState>>

VARIABLES
  docs,            \* the deployments collection: documents in creation order
  reqs             \* per request handler, its kind, position and locals

dvars == <<docs, reqs>>

VARIABLES
  clientCache,     \* clientCache: the Map, as a set of [key, client] entries
  lastGet          \* history: the last getFoundryProjectClient call

kvars == <<clientCache, lastGet>>

VARIABLE
  lastWrite        \* history: the last writer.write call made by execute

yvars == <<svars, evars, dvars, kvars>>

wvars == <<yvars, lastWrite>>

vars == <<tvars, uvars, rvars, nvars, xvars, wvars>>

\* ------------------------------------------------------------ input sets
Positions == {0, 1}
CallIds == {"a", "b"}
Alphabet == {"O", "C", "s", "a"}
SomeUsage == [present |-> TRUE, prompt_tokens |-> 1, completion_tokens |-> 2,
              total_tokens |-> 3]
AbsentUsage == [present |-> FALSE, prompt_tokens |-> 0,
                completion_tokens |-> 0, total_tokens |-> 0]

IdFrags ==
  {Frag(p, id, "f", a) : p \in Positions, id \in CallIds,
                         a \in {<<>>, <<"{">>}}
ArgFrags == {Frag(p, "", "", a) : p \in Positions, a \in {<<>>, <<"}">>}}
Frags == IdFrags \cup ArgFrags
\* Two fragments in one chunk: two new calls at different positions, or a
\* new call and argument text for it.
FragLists ==
  {<<f>> : f \in Frags}
    \cup {fg \in {<<f, g>> : f \in IdFrags, g \in IdFrags} :
            /\ fg[1].index # fg[2].index
            /\ fg[1].id # fg[2].id
            /\ fg[1].arguments = <<>> /\ fg[2].arguments = <<>>}
    \cup {fg \in {<<f, g>> : f \in IdFrags, g \in ArgFrags} :
            /\ fg[1].index = fg[2].index
            /\ fg[1].arguments = <<>> /\ fg[2].arguments # <<>>}

\* Chunks of a stream that requests tools.
ToolChunks ==
  {Chunk(FALSE, <<>>, <<>>, <<>>, "", AbsentUsage)}
    \cup {Chunk(TRUE, <<>>, <<"a">>, <<>>, "", AbsentUsage)}
    \cup {Chunk(TRUE, <<>>, <<>>, fs, "", AbsentUsage) : fs \in FragLists}
    \cup {Chunk(TRUE, <<>>, <<>>, <<>>, "stop", u) :
            u \in {AbsentUsage, SomeUsage}}
    \cup {Chunk(TRUE, <<>>, <<>>, <<>>, "tool_calls", AbsentUsage)}
    \cup {Chunk(TRUE, <<>>, <<>>, <<f>>, "tool_calls", AbsentUsage) :
            f \in {g \in ArgFrags : g.arguments # <<>>}}

\* Chunks of a stream without tool-call fragments that carry at most `room`
\* content tokens.
ContentChunks(room) ==
  {Chunk(TRUE, <<>>, ct, <<>>, "", AbsentUsage) :
     ct \in UNION {[1..n -> Alphabet] : n \in 1..room}}
    \cup {Chunk(TRUE, <<"r">>, ct, <<>>, "", AbsentUsage) :
            ct \in {x \in {<<>>, <<"a">>} : Len(x) <= room}}
    \cup {Chunk(TRUE, <<>>, <<>>, <<>>, fr, AbsentUsage) :
            fr \in {"stop", "length"}}

\* ------------------------------------------------------ streamFoundryText
\* usage: chunk.usage ? {promptTokens, completionTokens, totalTokens} : undefined
ConvertUsage(u) ==
  IF u.present
  THEN [present |-> TRUE, promptTokens |-> u.prompt_tokens,
        completionTokens |-> u.completion_tokens,
        totalTokens |-> u.total_tokens]
  ELSE NoUsage

\* The events yielded for delta.content.
ContentEvents(content) ==
  IF content = <<>> THEN <<>>
  ELSE LET r == extractReasoningFromContent(content)
       IN (IF r.reasoning # <<>> THEN <<ReasoningDelta(r.reasoning)>>
           ELSE <<>>)
          \o (IF r.text # <<>> THEN <<TextDelta(r.text)>>
              ELSE IF r.reasoning = <<>> THEN <<TextDelta(content)>>
              ELSE <<>>)

\* The events yielded for the fragments of delta.tool_calls, one per
\* fragment that carries an id.
ToolFragmentEventsEager(fs) ==
  [k \in 1..Len(SelectSeq(fs, LAMBDA f : f.id # "")) |->
     ToolCallEv(SelectSeq(fs, LAMBDA f : f.id # "")[k])]

\* The events yielded for the fragments of delta.tool_calls: none, the
\* fragments are only accumulated.
ToolFragmentEvents(fs) == <<>>

\* The events yielded for delta.reasoning_content.
ReasoningEvents(rc) == IF rc = <<>> THEN <<>> ELSE <<ReasoningDelta(rc)>>

RECURSIVE SeenAll(_, _)
\* History of the fragments received per position: all argument text in
\* arrival order, the number of identifier-bearing fragments, and whether
\* argument text arrived before the identifier.
SeenAll(sn, fs) ==
  IF fs = <<>> THEN sn
  ELSE LET f == Head(fs)
           old == sn[f.index]
           new == [args |-> old.args \o f.arguments,
                   ids |-> old.ids + (IF f.id # "" THEN 1 ELSE 0),
                   early |-> old.early \/ (f.id = "" /\ old.ids = 0),
                   touched |-> TRUE]
       IN SeenAll([sn EXCEPT ![f.index] = new], Tail(fs))

InitSeen ==
  [p \in Positions |->
     [args |-> <<>>, ids |-> 0, early |-> FALSE, touched |-> FALSE]]

\* One iteration of `for await (const chunk of stream)` up to the handling
\* of finish_reason.
RecvChunk(c) ==
  /\ UNCHANGED <<uvars, rvars, xvars, nvars, wvars>>
  /\ tPc = "stream"
  /\ nChunks < MaxChunks
  /\ Len(c.content) <= MaxContentLen - contentUsed
  /\ nChunks' = nChunks + 1
  /\ contentUsed' = contentUsed + Len(c.content)
  /\ UNCHANGED <<hasHandler, callLog, outcomes, upstreamFailed>>
  /\ inputs' = IF c.hasChoice /\ (c.content # <<>> \/ c.reasoning_content # <<>>)
               THEN Append(inputs, [reasoning_content |-> c.reasoning_content,
                                    content |-> c.content])
               ELSE inputs
  /\ round' = IF c.hasChoice /\ c.finish_reason # "" THEN round + 1 ELSE round
  /\ IF ~c.hasChoice
     THEN UNCHANGED <<tPc, currentToolCalls, textBuffer, reasoningBuffer,
                      events, toolIdx, pendingFinish, seen>>
     ELSE LET r == extractReasoningFromContent(c.content)
              evs == ReasoningEvents(c.reasoning_content)
                       \o ContentEvents(c.content)
                       \o ToolFragmentEvents(c.tool_calls)
              m == AccumulateAll(currentToolCalls, c.tool_calls)
          IN /\ reasoningBuffer' =
                  reasoningBuffer \o c.reasoning_content
                    \o (IF c.content # <<>> THEN r.reasoning ELSE <<>>)
             /\ textBuffer' = textBuffer \o c.content
             /\ currentToolCalls' = m
             /\ seen' = SeenAll(seen, c.tool_calls)
             /\ IF c.finish_reason = ""
                THEN /\ events' = events \o evs
                     /\ UNCHANGED <<tPc, toolIdx, pendingFinish>>
                ELSE IF c.finish_reason = "tool_calls" /\ Len(m) > 0
                THEN /\ events' = events \o evs
                     /\ tPc' = "calls"
                     /\ toolIdx' = 1
                     /\ pendingFinish' = c
                ELSE /\ events' =
                          events \o evs
                            \o <<FinishEv(c.finish_reason,
                                          ConvertUsage(c.usage))>>
                     /\ UNCHANGED <<tPc, toolIdx, pendingFinish>>

\* yield toolCallChunk, for the next entry of currentToolCalls.
YieldToolCall ==
  /\ UNCHANGED <<uvars, rvars, xvars, nvars, wvars>>
  /\ tPc = "calls"
  /\ toolIdx <= Len(currentToolCalls)
  /\ LET tc == currentToolCalls[toolIdx]
     IN /\ events' = Append(events, ToolCallEv(tc))
        /\ callLog' = Append(callLog,
                             [ev |-> Len(events) + 1, index |-> tc.index,
                              round |-> round, seen |-> seen[tc.index]])
  /\ IF hasHandler
     THEN tPc' = "await" /\ UNCHANGED toolIdx
     ELSE toolIdx' = toolIdx + 1 /\ UNCHANGED tPc
  /\ UNCHANGED <<hasHandler, currentToolCalls, textBuffer, reasoningBuffer,
                 pendingFinish, nChunks, contentUsed, inputs, round, seen, outcomes,
                 upstreamFailed>>

\* The outcome of one onToolCall, yielded as a tool-result.
ToolDone(kind, value, result, isError) ==
  /\ UNCHANGED <<uvars, rvars, xvars, nvars, wvars>>
  /\ tPc = "await"
  /\ events' = Append(events,
                      ToolResultEv(currentToolCalls[toolIdx].id, result,
                                   isError))
  /\ outcomes' = Append(outcomes,
                        [ev |-> Len(events) + 1, kind |-> kind,
                         value |-> value, k |-> toolIdx,
                         n |-> Len(currentToolCalls),
                         id |-> currentToolCalls[toolIdx].id])
  /\ toolIdx' = toolIdx + 1
  /\ tPc' = "calls"
  /\ UNCHANGED <<hasHandler, currentToolCalls, textBuffer, reasoningBuffer,
                 pendingFinish, nChunks, contentUsed, inputs, round, seen, callLog,
                 upstreamFailed>>

\* await onToolCall(...) resolves with value v.
ToolResolve(v) == ToolDone("resolve", v, v, FALSE)

\* await onToolCall(...) throws e, and the generator lets it escape.
ToolThrowPropagates(e) ==
  /\ UNCHANGED <<uvars, rvars, xvars, nvars, wvars>>
  /\ tPc = "await"
  /\ tPc' = "thrown"
  /\ outcomes' = Append(outcomes,
                        [ev |-> Len(events) + 1, kind |-> "throw",
                         value |-> e, k |-> toolIdx,
                         n |-> Len(currentToolCalls),
                         id |-> currentToolCalls[toolIdx].id])
  /\ UNCHANGED <<hasHandler, currentToolCalls, textBuffer, reasoningBuffer,
                 events, toolIdx, pendingFinish, nChunks, contentUsed, inputs,
                 round, seen, callLog, upstreamFailed>>

\* await onToolCall(...) throws e: an Error with a message, or another value.
ToolThrow(e) ==
  ToolDone("throw", e,
           IF e.isErrorObject THEN e.message ELSE "Tool execution failed",
           TRUE)

\* yield finishChunk, once the iteration over currentToolCalls is over.
YieldFinish ==
  /\ UNCHANGED <<uvars, rvars, xvars, nvars, wvars>>
  /\ tPc = "calls"
  /\ toolIdx > Len(currentToolCalls)
  /\ events' = Append(events,
                      FinishEv(pendingFinish.finish_reason,
                               ConvertUsage(pendingFinish.usage)))
  /\ tPc' = "stream"
  /\ UNCHANGED <<hasHandler, currentToolCalls, textBuffer, reasoningBuffer,
                 toolIdx, pendingFinish, nChunks, contentUsed, inputs, round, seen,
                 callLog, outcomes, upstreamFailed>>

\* The upstream stream ends: the generator returns.
StreamEnd ==
  /\ UNCHANGED <<uvars, rvars, xvars, nvars, wvars>>
  /\ tPc = "stream"
  /\ tPc' = "done"
  /\ UNCHANGED <<hasHandler, currentToolCalls, textBuffer, reasoningBuffer,
                 events, toolIdx, pendingFinish, nChunks, contentUsed, inputs,
                 round, seen, callLog, outcomes, upstreamFailed>>

\* client.chat.completions.create or the iteration of the stream throws:
\* the catch block logs and rethrows.
UpstreamFail ==
  /\ UNCHANGED <<uvars, rvars, xvars, nvars, wvars>>
  /\ tPc = "stream"
  /\ tPc' = "thrown"
  /\ upstreamFailed' = TRUE
  /\ UNCHANGED <<hasHandler, currentToolCalls, textBuffer, reasoningBuffer,
                 events, toolIdx, pendingFinish, nChunks, contentUsed, inputs,
                 round, seen, callLog, outcomes>>

ToolValues == {"tempC18"}
ToolErrors == {[isErrorObject |-> TRUE, message |-> "timeout"],
               [isErrorObject |-> FALSE, message |-> ""]}

InitTranslator ==
  /\ tPc = "stream"
  /\ hasHandler \in BOOLEAN
  /\ currentToolCalls = <<>>
  /\ textBuffer = <<>>
  /\ reasoningBuffer = <<>>
  /\ events = <<>>
  /\ toolIdx = 1
  /\ pendingFinish = Chunk(FALSE, <<>>, <<>>, <<>>, "", AbsentUsage)
  /\ nChunks = 0
  /\ contentUsed = 0
  /\ inputs = <<>>
  /\ round = 0
  /\ seen = InitSeen
  /\ callLog = <<>>
  /\ outcomes = <<>>
  /\ upstreamFailed = FALSE

\* ------------------------------------------ createFoundryUIMessageStream
\* One chunk enqueued on the controller: an SSE frame with its event type
\* and the text of its payload, or a raw chunk pumped by merge().
Frame(event, text) == [event |-> event, text |-> text]

\* A DataStreamChunk handed to writer.write.
WChunk(type, text) == [type |-> type, text |-> text]

NewMessage == [id |-> "generated", role |-> "assistant", text |-> <<>>]

\* writer.write(chunk) applied to st = [out, messages, currentMessage].
\* A chunk type without a case enqueues nothing.
Write(st, chunk) ==
  CASE chunk.type = "text-part" ->
         LET cur == IF st.currentMessage = <<>> THEN NewMessage
                    ELSE st.currentMessage[1]
         IN [st EXCEPT
               !.currentMessage = <<[cur EXCEPT !.text = @ \o chunk.text]>>,
               !.out = Append(@, Frame("text-delta", chunk.text))]
    [] chunk.type = "reasoning-part" ->
         [st EXCEPT !.out = Append(@, Frame("reasoning-delta", chunk.text))]
    [] chunk.type = "data-chat-title" ->
         [st EXCEPT !.out = Append(@, Frame("data", <<"chat-title">> \o chunk.text))]
    [] chunk.type = "data-textDelta" ->
         [st EXCEPT !.out = Append(@, Frame("data", <<"textDelta">> \o chunk.text))]
    [] chunk.type = "finish" ->
         [st EXCEPT !.messages = @ \o st.currentMessage,
                    !.currentMessage = <<>>]
    [] chunk.type = "error" ->
         [st EXCEPT !.out = Append(@, Frame("error", chunk.text))]
    [] OTHER -> st

RECURSIVE WriteAll(_, _)
WriteAll(st, chunks) ==
  IF chunks = <<>> THEN st
  ELSE WriteAll(Write(st, Head(chunks)), Tail(chunks))

WriterState == [out |-> out, messages |-> messages,
                currentMessage |-> currentMessage]

\* The writer state after the calls writer.write(chunks[1]), ...
Written(chunks) ==
  LET st == WriteAll(WriterState, chunks)
  IN /\ out' = st.out
     /\ messages' = st.messages
     /\ currentMessage' = st.currentMessage

WriterChunks ==
  {WChunk("text-part", <<"a">>), WChunk("reasoning-part", <<"r">>),
   WChunk("data-textDelta", <<"d">>), WChunk("data-kind", <<"k">>),
   WChunk("data-codeDelta", <<"c">>),
   WChunk("finish", <<>>), WChunk("error", <<"e">>)}

\* execute calls writer.write(chunk).
ExecWrite(chunk) ==
  /\ uPc = "execute" /\ rPc = "off"
  /\ Len(out) + pump < MaxFrames
  /\ Written(<<chunk>>)
  /\ lastWrite' = [type |-> chunk.type,
                    frames |-> LET st == Write(WriterState, chunk)
                               IN SubSeq(st.out, Len(out) + 1, Len(st.out))]
  /\ UNCHANGED <<uPc, hasOnFinish, ctrl, lateEnqueues, pump, onFinishArgs>>
  /\ UNCHANGED <<tvars, rvars, xvars, nvars, yvars>>

\* execute calls writer.merge(stream) with a stream that will produce n
\* chunks: pump() starts and is not awaited.
ExecMerge(n) ==
  /\ uPc = "execute" /\ rPc = "off"
  /\ pump = 0
  /\ Len(out) + n <= MaxFrames
  /\ pump' = n
  /\ UNCHANGED <<uPc, hasOnFinish, ctrl, out, lateEnqueues, messages,
                 currentMessage, onFinishArgs>>
  /\ UNCHANGED <<tvars, rvars, xvars, nvars, wvars>>

\* One iteration of pump(): reader.read() produced a chunk and
\* controller.enqueue(value) is called.  On a controller that is no longer
\* open enqueue throws; pump catches, logs and ends.
PumpStep ==
  /\ pump > 0
  /\ IF ctrl = "open"
     THEN /\ out' = Append(out, Frame("raw", <<"m">>))
          /\ pump' = pump - 1
          /\ UNCHANGED lateEnqueues
     ELSE /\ lateEnqueues' = lateEnqueues + 1
          /\ pump' = 0
          /\ UNCHANGED out
  /\ UNCHANGED <<uPc, hasOnFinish, ctrl, messages, currentMessage,
                 onFinishArgs>>
  /\ UNCHANGED <<tvars, rvars, xvars, nvars, wvars>>

\* writeSSE("finish", {finishReason: "stop"}); controller.close()
FinishAndClose ==
  /\ out' = Append(out, Frame("finish", <<"stop">>))
  /\ ctrl' = "closed"
  /\ uPc' = "closed"

\* The catch block of start(): writeSSE("error", ...); controller.error(error)
CatchInStart(message) ==
  /\ out' = Append(out, Frame("error", message))
  /\ ctrl' = "errored"
  /\ uPc' = "errored"

\* onError?.(error) || "An error occurred during streaming"; the route's
\* onError returns a fixed string.
StartErrorMessage == IF rPc = "off" THEN <<"An error occurred during streaming">>
                     ELSE <<"Oops, an error occurred!">>

\* await execute({writer}) returns.
ExecReturn ==
  /\ uPc = "execute" /\ rPc \in {"off", "returned"}
  /\ IF hasOnFinish
     THEN /\ uPc' = "onFinish"
          /\ onFinishArgs' = Append(onFinishArgs, messages)
          /\ UNCHANGED <<ctrl, out>>
     ELSE /\ FinishAndClose
          /\ UNCHANGED onFinishArgs
  /\ UNCHANGED <<hasOnFinish, lateEnqueues, pump, messages, currentMessage>>
  /\ UNCHANGED <<tvars, rvars, xvars, nvars, wvars>>

\* await execute({writer}) throws.
ExecThrow ==
  /\ uPc = "execute" /\ rPc = "off"
  /\ CatchInStart(StartErrorMessage)
  /\ UNCHANGED <<hasOnFinish, lateEnqueues, pump, messages, currentMessage,
                 onFinishArgs>>
  /\ UNCHANGED <<tvars, rvars, xvars, nvars, wvars>>

\* The route's onFinish reaches the store only with a non-empty message
\* list: only then can it throw.
OnFinishMayThrow == rPc = "off" \/ Len(messages) > 0

\* await onFinish({messages}) returns (ok) or throws.
OnFinishDone(ok) ==
  /\ uPc = "onFinish"
  /\ ok \/ OnFinishMayThrow
  /\ IF ok THEN FinishAndClose ELSE CatchInStart(StartErrorMessage)
  /\ UNCHANGED <<hasOnFinish, lateEnqueues, pump, messages, currentMessage,
                 onFinishArgs>>
  /\ UNCHANGED <<tvars, rvars, xvars, nvars, wvars>>

\* ---------------------------------------------------- chat route: execute
KnownTools == {"getWeather", "createDocument"}

\* JSON.parse(toolCall.arguments) succeeds.
ValidJSON(a) == a = <<"{", "}">>

Msg(role, toolCalls, toolCallId, content) ==
  [role |-> role, tool_calls |-> toolCalls, tool_call_id |-> toolCallId,
   content |-> content]

\* The system message followed by openaiMessages.
BaseMessages == <<Msg("system", <<>>, "", "prompt"),
                  Msg("user", <<>>, "", "history")>>

\* Array.from(currentToolCalls.values()).map(...)
WireCalls(m) ==
  [k \in 1..Len(m) |->
     [id |-> m[k].id, name |-> m[k].name, arguments |-> m[k].arguments]]

\* continuationMessages
ContinuationMessages(m, results) ==
  BaseMessages \o <<Msg("assistant", WireCalls(m), "", "")>> \o results

\* The text-part written for a tool call of the continuation stream.
AdditionalToolText(name) ==
  CASE name = "getWeather" -> <<"[Additional Tool: getWeather - Requires Approval]">>
    [] name = "createDocument" -> <<"[Additional Tool: createDocument - Requires Approval]">>
    [] OTHER -> <<"[Additional Tool: nope - Requires Approval]">>

RouteIdFrags ==
  {Frag(p, id, name, <<"{", "}">>) :
     p \in Positions, id \in CallIds,
     name \in {"getWeather", "createDocument", "nope"}}
    \cup {Frag(p, "a", "getWeather", <<"{">>) : p \in Positions}
RouteArgFrags == {Frag(p, "", "", <<"}">>) : p \in Positions}

\* Chunks delivered to the route.
RouteChunks ==
  {Chunk(FALSE, <<>>, <<>>, <<>>, "", AbsentUsage)}
    \cup {Chunk(TRUE, <<>>, <<"a">>, <<>>, "", AbsentUsage)}
    \cup {Chunk(TRUE, <<>>, <<>>, <<f>>, "", AbsentUsage) :
            f \in RouteIdFrags \cup RouteArgFrags}
    \cup {Chunk(TRUE, <<>>, <<>>, <<>>, fr, AbsentUsage) :
            fr \in {"stop", "tool_calls"}}
    \cup {Chunk(TRUE, <<>>, <<>>, <<f>>, "tool_calls", AbsentUsage) :
            f \in {g \in RouteIdFrags : g.name = "getWeather" /\ g.id = "a"}}

\* await foundryClient.chat.completions.create(...) for the primary stream.
RouteCreate ==
  /\ uPc = "execute" /\ rPc = "create"
  /\ requests' = Append(requests, BaseMessages)
  /\ rPc' = "primary"
  /\ UNCHANGED <<approval, titlePending, rCalls, rIdx, toolResults, executed,
                 primaryCalls, rN, rFailed, rFinish>>
  /\ UNCHANGED <<tvars, uvars, xvars, nvars, wvars>>

\* One iteration of `for await (const chunk of completionStream)`.
RoutePrimaryChunk(c) ==
  /\ uPc = "execute" /\ rPc = "primary"
  /\ rN < MaxChunks
  /\ rN' = rN + 1
  /\ IF c.hasChoice
     THEN /\ Written(IF c.content # <<>>
                     THEN <<WChunk("text-part", c.content)>> ELSE <<>>)
          /\ rCalls' = AccumulateAll(rCalls, c.tool_calls)
     ELSE UNCHANGED <<out, messages, currentMessage, rCalls>>
  /\ rFinish' = IF c.hasChoice /\ c.finish_reason # "" THEN c.finish_reason
                ELSE rFinish
  /\ UNCHANGED <<rPc, approval, titlePending, rIdx, toolResults, requests,
                 executed, primaryCalls, rFailed>>
  /\ UNCHANGED <<uPc, hasOnFinish, ctrl, lateEnqueues, pump, onFinishArgs>>
  /\ UNCHANGED <<tvars, xvars, nvars, wvars>>

\* The primary stream ends: if (currentToolCalls.size > 0)
RoutePrimaryEnd ==
  /\ uPc = "execute" /\ rPc = "primary"
  /\ primaryCalls' = rCalls
  /\ IF Len(rCalls) > 0
     THEN rPc' = "tools" /\ rIdx' = 1 /\ toolResults' = <<>>
     ELSE rPc' = "title" /\ UNCHANGED <<rIdx, toolResults>>
  /\ UNCHANGED <<approval, titlePending, rCalls, requests, executed, rN,
                 rFailed, rFinish>>
  /\ UNCHANGED <<tvars, uvars, xvars, nvars, wvars>>

\* The tool message pushed for a call: JSON.stringify of the result or of
\* {error: message}.
ToolMessage(id, content) == Msg("tool", <<>>, id, content)

\* toolResults after one iteration of the loop over the calls, where the
\* catch block pushes nothing.
ResultsAfterDropErrors(results, tc, outcome) ==
  IF ~ValidJSON(tc.arguments) THEN results
  ELSE IF tc.name \notin KnownTools
       THEN Append(results, ToolMessage(tc.id, "error: Unknown tool"))
       ELSE IF outcome = "resolve"
            THEN Append(results, ToolMessage(tc.id, "result"))
            ELSE results

\* toolResults after one iteration of the loop over the calls.
ResultsAfter(results, tc, outcome) ==
  IF ~ValidJSON(tc.arguments)
  THEN Append(results, ToolMessage(tc.id, "error: Unexpected end of JSON input"))
  ELSE IF tc.name \notin KnownTools
       THEN Append(results, ToolMessage(tc.id, "error: Unknown tool"))
       ELSE IF outcome = "resolve"
            THEN Append(results, ToolMessage(tc.id, "result"))
            ELSE Append(results, ToolMessage(tc.id, "error: timeout"))

\* One iteration of `for (const [_, toolCall] of currentToolCalls)`: parse
\* the arguments, run the tool named by the call, record its result.
\* createDocument streams its draft to the writer as data-textDelta.
RouteTool(outcome) ==
  /\ uPc = "execute" /\ rPc = "tools"
  /\ rIdx <= Len(rCalls)
  /\ LET tc == rCalls[rIdx]
         runs == ValidJSON(tc.arguments) /\ tc.name \in KnownTools
     IN /\ runs \/ outcome = "resolve"
        /\ executed' = IF runs
                       THEN Append(executed, [id |-> tc.id, name |-> tc.name,
                                              outcome |-> outcome])
                       ELSE executed
        /\ Written(IF runs /\ tc.name = "createDocument"
                   THEN <<WChunk("data-textDelta", <<"d">>)>> ELSE <<>>)
        /\ toolResults' = ResultsAfter(toolResults, tc, outcome)
  /\ rIdx' = rIdx + 1
  /\ UNCHANGED <<rPc, approval, titlePending, rCalls, requests, primaryCalls,
                 rN, rFailed, rFinish>>
  /\ UNCHANGED <<uPc, hasOnFinish, ctrl, lateEnqueues, pump, onFinishArgs>>
  /\ UNCHANGED <<tvars, xvars, nvars, wvars>>

\* After the loop: build continuationMessages, await the second create(...),
\* then currentToolCalls.clear().
RouteContinue ==
  /\ uPc = "execute" /\ rPc = "tools"
  /\ rIdx > Len(rCalls)
  /\ requests' = Append(requests, ContinuationMessages(rCalls, toolResults))
  /\ rCalls' = <<>>
  /\ rPc' = "continuation"
  /\ UNCHANGED <<approval, titlePending, rIdx, toolResults, executed,
                 primaryCalls, rN, rFailed, rFinish>>
  /\ UNCHANGED <<tvars, uvars, xvars, nvars, wvars>>

\* The text-parts written for a chunk of the continuation stream.
ContinuationParts(c, m) ==
  (IF c.content # <<>> THEN <<WChunk("text-part", c.content)>> ELSE <<>>)
    \o (IF c.finish_reason = "tool_calls" /\ Len(m) > 0
        THEN [k \in 1..Len(m) |->
                WChunk("text-part", AdditionalToolText(m[k].name))]
        ELSE <<>>)

\* One iteration of the continuation loop in which a finish_reason of
\* tool_calls sends the accumulated calls to the tool loop again.
RouteContChunkReexecute(c) ==
  /\ uPc = "execute" /\ rPc = "continuation"
  /\ rN < MaxChunks
  /\ rN' = rN + 1
  /\ IF c.hasChoice
     THEN LET m == AccumulateAll(rCalls, c.tool_calls)
          IN /\ rCalls' = m
             /\ Written(IF c.content # <<>>
                        THEN <<WChunk("text-part", c.content)>> ELSE <<>>)
             /\ IF c.finish_reason = "tool_calls" /\ Len(m) > 0
                THEN rPc' = "tools" /\ rIdx' = 1 /\ toolResults' = <<>>
                ELSE UNCHANGED <<rPc, rIdx, toolResults>>
     ELSE UNCHANGED <<out, messages, currentMessage, rCalls, rPc, rIdx,
                      toolResults>>
  /\ UNCHANGED <<approval, titlePending, requests, executed, primaryCalls,
                 rFailed, rFinish>>
  /\ UNCHANGED <<uPc, hasOnFinish, ctrl, lateEnqueues, pump, onFinishArgs>>
  /\ UNCHANGED <<tvars, xvars, nvars, wvars>>

\* One iteration of `for await (const continuationChunk of
\* continuationStream)`.
RouteContChunk(c) ==
  /\ uPc = "execute" /\ rPc = "continuation"
  /\ rN < MaxChunks
  /\ rN' = rN + 1
  /\ IF c.hasChoice
     THEN LET m == AccumulateAll(rCalls, c.tool_calls)
          IN /\ rCalls' = m
             /\ Written(ContinuationParts(c, m))
     ELSE UNCHANGED <<out, messages, currentMessage, rCalls>>
  /\ UNCHANGED <<rPc, approval, titlePending, rIdx, toolResults, requests,
                 executed, primaryCalls, rFailed, rFinish>>
  /\ UNCHANGED <<uPc, hasOnFinish, ctrl, lateEnqueues, pump, onFinishArgs>>
  /\ UNCHANGED <<tvars, xvars, nvars, wvars>>

\* The continuation stream ends.
RouteContEnd ==
  /\ uPc = "execute" /\ rPc = "continuation"
  /\ rPc' = "title"
  /\ UNCHANGED <<approval, titlePending, rCalls, rIdx, toolResults, requests,
                 executed, primaryCalls, rN, rFailed, rFinish>>
  /\ UNCHANGED <<tvars, uvars, xvars, nvars, wvars>>

\* if (titlePromise) { await; write data-chat-title }; write finish.  A
\* rejected titlePromise lands in the catch block, which writes an error.
RouteTitle(ok) ==
  /\ uPc = "execute" /\ rPc = "title"
  /\ ok \/ titlePending
  /\ Written(IF ~ok THEN <<WChunk("error", <<"title failed">>)>>
             ELSE IF titlePending
             THEN <<WChunk("data-chat-title", <<"t">>), WChunk("finish", <<>>)>>
             ELSE <<WChunk("finish", <<>>)>>)
  /\ rPc' = "returned"
  /\ UNCHANGED <<approval, titlePending, rCalls, rIdx, toolResults, requests,
                 executed, primaryCalls, rN, rFailed, rFinish>>
  /\ UNCHANGED <<uPc, hasOnFinish, ctrl, lateEnqueues, pump, onFinishArgs>>
  /\ UNCHANGED <<tvars, xvars, nvars, wvars>>

\* Where the upstream source can fail: on either create(...) and while
\* either stream is iterated.
FailPoint ==
  CASE rPc = "create" -> "initial request"
    [] rPc = "primary" -> "primary stream"
    [] rPc = "tools" /\ rIdx > Len(rCalls) -> "continuation request"
    [] rPc = "continuation" -> "continuation stream"
    [] OTHER -> ""

\* The upstream source throws: the catch block of execute writes an error
\* chunk carrying error.message, and execute returns.
RouteUpstreamFail(message) ==
  /\ uPc = "execute"
  /\ FailPoint # ""
  /\ rFailed' = FailPoint
  /\ rErrMsg' = message
  /\ Written(<<WChunk("error", <<message>>)>>)
  /\ rPc' = "returned"
  /\ UNCHANGED <<approval, titlePending, rCalls, rIdx, toolResults, requests,
                 executed, primaryCalls, rN, rFinish>>
  /\ UNCHANGED <<uPc, hasOnFinish, ctrl, lateEnqueues, pump, onFinishArgs>>
  /\ UNCHANGED <<tvars, xvars, cancelled, wvars>>

\* The message texts of the exceptions the upstream source raises.
UpstreamMessages == {"ECONNRESET", "quota exceeded"}

\* The client cancels the response body.  The body is one branch of
\* stream.tee() (createFoundryUIMessageStreamResponse); the other branch is
\* handed to consumeSseStream, so the cancellation of one branch is not
\* propagated to the source, whose cancel() is empty in any case: the
\* controller stays open and nothing in the turn changes.
ClientCancel ==
  /\ uPc \in {"execute", "onFinish"}
  /\ rPc # "off"
  /\ ~cancelled
  /\ cancelled' = TRUE
  /\ UNCHANGED <<tvars, uvars, rvars, xvars, rErrMsg, wvars>>

\* ----------------------------------------------------- streamFoundryObject
\* JSON texts are sequences of the tokens "[", "]", "1" (a digit) and "s"
\* (whitespace).  A parsed value is an array nesting depth around a base:
\* <<"arr">> for the empty array, <<"num", d1, ...>> for a number.
\* The output of requestSuggestions' model is written with three more
\* tokens: "{" for `{"suggestions":[`, "}" for `]}`, "e" for one element
\* with its three fields (and its separator) and "x" for an element that
\* lacks a field; its value is <<"sug", element, ...>>.
JsonAlphabet == {"[", "]", "1", "s"}

ParseFail == [ok |-> FALSE, depth |-> 0, base |-> <<>>]

RECURSIVE ParseJSON(_)
\* JSON.parse(text): ok is FALSE where it throws.
ParseJSON(text) ==
  LET t == Trim(text)
      n == Len(t)
  IN IF n = 0 THEN ParseFail
     ELSE IF \A i \in 1..n : t[i] = "1"
     THEN [ok |-> TRUE, depth |-> 0, base |-> <<"num">> \o t]
     ELSE IF n >= 2 /\ t[1] = "{" /\ t[n] = "}"
     THEN IF \A i \in 2..(n - 1) : t[i] \in {"e", "x", "s"}
          THEN [ok |-> TRUE, depth |-> 0,
                base |-> <<"sug">> \o SelectSeq(SubSeq(t, 2, n - 1),
                                                LAMBDA tok : tok # "s")]
          ELSE ParseFail
     ELSE IF n >= 2 /\ t[1] = "[" /\ t[n] = "]"
     THEN LET inner == Trim(SubSeq(t, 2, n - 1))
          IN IF inner = <<>>
             THEN [ok |-> TRUE, depth |-> 0, base |-> <<"arr">>]
             ELSE LET r == ParseJSON(inner)
                  IN IF r.ok THEN [r EXCEPT !.depth = @ + 1] ELSE ParseFail
     ELSE ParseFail

ObjectEv(r) == [type |-> "object", depth |-> r.depth, base |-> r.base]
ObjectFinishEv == [type |-> "finish", depth |-> 0, base |-> <<>>]

\* A parse attempt that yields the unparsed buffer where JSON.parse throws.
TryParseLenient(fc) ==
  LET r == ParseJSON(fc)
  IN IF r.ok THEN <<ObjectEv(r)>>
     ELSE <<[type |-> "object", depth |-> 0, base |-> <<"raw">> \o fc]>>

\* The object events of a try { JSON.parse(fullContent); yield } catch {}.
TryParse(fc) ==
  LET r == ParseJSON(fc) IN IF r.ok THEN <<ObjectEv(r)>> ELSE <<>>

\* One iteration of the loop in which the fragment replaces fullContent.
ObjectStepAssign(fc, c) ==
  IF ~c.hasChoice THEN [fullContent |-> fc, parses |-> 0, events |-> <<>>]
  ELSE LET full == IF c.content # <<>> THEN c.content ELSE fc
       IN [fullContent |-> full,
           parses |-> (IF c.content # <<>> THEN 1 ELSE 0)
                        + (IF c.finish_reason # "" THEN 1 ELSE 0),
           events |->
             (IF c.content # <<>> THEN TryParse(full) ELSE <<>>)
               \o (IF c.finish_reason # ""
                   THEN TryParse(full) \o <<ObjectFinishEv>> ELSE <<>>)]

\* One iteration of `for await (const chunk of stream)`: the new fullContent
\* and the events yielded.
ObjectStep(fc, c) ==
  IF ~c.hasChoice THEN [fullContent |-> fc, parses |-> 0, events |-> <<>>]
  ELSE LET full == IF c.content # <<>> THEN fc \o c.content ELSE fc
       IN [fullContent |-> full,
           parses |-> (IF c.content # <<>> THEN 1 ELSE 0)
                        + (IF c.finish_reason # "" THEN 1 ELSE 0),
           events |->
             (IF c.content # <<>> THEN TryParse(full) ELSE <<>>)
               \o (IF c.finish_reason # ""
                   THEN TryParse(full) \o <<ObjectFinishEv>> ELSE <<>>)]

\* The chunks the upstream can deliver next: the next fragment of oText, a
\* chunk without content, a chunk without choices, a finish_reason chunk
\* without content or with the rest of oText.
ObjectChunks ==
  {Chunk(TRUE, <<>>, SubSeq(oText, oSent + 1, oSent + n), <<>>, "",
         AbsentUsage) : n \in 0..(Len(oText) - oSent)}
    \cup {Chunk(FALSE, <<>>, <<>>, <<>>, "", AbsentUsage)}
    \cup {Chunk(TRUE, <<>>, ct, <<>>, "stop", AbsentUsage) :
            ct \in {<<>>, SubSeq(oText, oSent + 1, Len(oText))}}

ObjectChunk(c) ==
  /\ oPc = "stream"
  /\ c.finish_reason # "" => oFinishes < MaxChunks
  /\ LET st == ObjectStep(fullContent, c)
     IN /\ fullContent' = st.fullContent
        /\ oEvents' = oEvents \o st.events
        /\ oParses' = oParses + st.parses
  /\ oSent' = oSent + Len(c.content)
  /\ oFrags' = IF c.hasChoice /\ c.content # <<>> THEN oFrags + 1 ELSE oFrags
  /\ oFinishes' = IF c.hasChoice /\ c.finish_reason # "" THEN oFinishes + 1
                  ELSE oFinishes
  /\ UNCHANGED <<oPc, oText>>
  /\ UNCHANGED <<tvars, uvars, rvars, nvars, gvars, zvars, wvars>>

\* The upstream stream ends: the generator returns.
ObjectStreamEnd ==
  /\ oPc = "stream"
  /\ oPc' = "done"
  /\ UNCHANGED <<fullContent, oEvents, oText, oSent, oFrags, oFinishes,
                 oParses>>
  /\ UNCHANGED <<tvars, uvars, rvars, nvars, gvars, zvars, wvars>>

\* create(...) or the iteration throws: the catch block logs and rethrows.
ObjectUpstreamFail ==
  /\ oPc = "stream"
  /\ oPc' = "thrown"
  /\ UNCHANGED <<fullContent, oEvents, oText, oSent, oFrags, oFinishes,
                 oParses>>
  /\ UNCHANGED <<tvars, uvars, rvars, nvars, gvars, zvars, wvars>>

\* ------------------------------------------------------------ ToolRegistry
\* Tool objects have identity: register() writes the `name` field of the
\* object it is given.  t1.execute resolves; t2.execute rejects on input "x".
ToolObjs == {"t1", "t2"}
RegNames == {"getWeather", "createDocument"}
ExecNames == RegNames \cup {"nope"}
ToolInputs == {"x", "y"}

\* tool.execute(input)
ExecuteOf(obj, input) ==
  IF obj = "t2" /\ input = "x"
  THEN [kind |-> "reject", value |-> <<obj, input>>, called |-> obj]
  ELSE [kind |-> "resolve", value |-> <<obj, input>>, called |-> obj]

RegHas(reg, name) == \E k \in 1..Len(reg) : reg[k].name = name

\* Position of the first entry under a name.
RegPos(reg, name) ==
  CHOOSE k \in 1..Len(reg) :
    /\ reg[k].name = name
    /\ \A j \in 1..(k - 1) : reg[j].name # name

\* this.tools.get(name), "" for undefined
RegGet(reg, name) == IF RegHas(reg, name) THEN reg[RegPos(reg, name)].tool ELSE ""

\* A table that keeps the entry it already has for a name.
RegSetKeepFirst(reg, name, obj) ==
  IF RegHas(reg, name) THEN reg
  ELSE Append(reg, [name |-> name, tool |-> obj])

\* this.tools.set(name, tool)
RegSet(reg, name, obj) ==
  IF RegHas(reg, name)
  THEN [reg EXCEPT ![RegPos(reg, name)] = [name |-> name, tool |-> obj]]
  ELSE Append(reg, [name |-> name, tool |-> obj])

\* toolToOpenAIFunction(name, tool): function.name is the name passed in;
\* description and parameters are read from the tool object.
toolToOpenAIFunction(name, obj) == [name |-> name, of |-> obj]

\* getOpenAIFunctions(): the entries of the Map, in order, converted.
getOpenAIFunctions(reg) ==
  [k \in 1..Len(reg) |-> toolToOpenAIFunction(reg[k].name, reg[k].tool)]

\* ToolRegistry.execute(name, input): the outcome of the returned promise
\* and the tool object whose execute was called ("" for none).
RegistryExecute(reg, name, input) ==
  IF RegGet(reg, name) = ""
  THEN [kind |-> "reject", value |-> <<"Tool not found", name>>, called |-> ""]
  ELSE ExecuteOf(RegGet(reg, name), input)

NoExec == [seq |-> 0, name |-> "", input |-> "", registered |-> "",
           outcome |-> [kind |-> "", value |-> <<>>, called |-> ""]]

\* register(name, tool)
Register(name, obj) ==
  /\ toolName' = [toolName EXCEPT ![obj] = name]
  /\ tools' = RegSet(tools, name, obj)
  /\ lastReg' = [lastReg EXCEPT ![name] = obj]
  /\ UNCHANGED <<invoked, lastExec>>
  /\ UNCHANGED <<tvars, uvars, rvars, nvars, ovars, zvars, wvars>>

\* execute(name, input)
RegExecute(name, input) ==
  /\ LET o == RegistryExecute(tools, name, input)
     IN /\ lastExec' = [seq |-> IF lastExec.seq = 1 THEN 2 ELSE 1,
                        name |-> name, input |-> input,
                        registered |-> lastReg[name], outcome |-> o]
        /\ invoked' = IF o.called = "" THEN invoked ELSE invoked \cup {o.called}
  /\ UNCHANGED <<tools, toolName, lastReg>>
  /\ UNCHANGED <<tvars, uvars, rvars, nvars, ovars, zvars, wvars>>

\* --------------------------------------------------------- zodToJsonSchema
\* A Zod schema, by its _def: typeName, the entries of shape() in order, the
\* inner type (of an optional or an array), the options of a union, the
\* values of an enum and the description.
Z(typeName, shape, inner, options, values, description) ==
  [typeName |-> typeName, shape |-> shape, inner |-> inner,
   options |-> options, values |-> values, description |-> description]

ZString(d) == Z("ZodString", <<>>, <<>>, <<>>, <<>>, d)
ZNumber(d) == Z("ZodNumber", <<>>, <<>>, <<>>, <<>>, d)
ZBoolean == Z("ZodBoolean", <<>>, <<>>, <<>>, <<>>, "")
ZEnum == Z("ZodEnum", <<>>, <<>>, <<>>, <<"C", "F">>, "")
ZDate == Z("ZodDate", <<>>, <<>>, <<>>, <<>>, "")
ZOptional(s) == Z("ZodOptional", <<>>, <<s>>, <<>>, <<>>, "")
ZArray(s) == Z("ZodArray", <<>>, <<s>>, <<>>, <<>>, "")
ZUnion(opts) == Z("ZodUnion", <<>>, <<>>, opts, <<>>, "")
ZObject(shape) == Z("ZodObject", shape, <<>>, <<>>, <<>>, "")
Entry(key, schema) == [key |-> key, schema |-> schema]

\* A JSON Schema; an absent `required`, `items`, `enum` or `description` is
\* empty.
J(type, properties, required, items, enum, description) ==
  [type |-> type, properties |-> properties, required |-> required,
   items |-> items, enum |-> enum, description |-> description]

\* The keys of a shape, all of them.
RequiredKeysAll(shape) == [k \in 1..Len(shape) |-> shape[k].key]

\* required: the keys, in order, whose value is not a ZodOptional.
RequiredKeys(shape) ==
  SelectSeq([k \in 1..Len(shape) |->
               IF shape[k].schema.typeName # "ZodOptional"
               THEN shape[k].key ELSE ""],
            LAMBDA key : key # "")

RECURSIVE zodToJsonSchema(_)
zodToJsonSchema(schema) ==
  CASE schema.typeName = "ZodObject" ->
         J("object",
           [k \in 1..Len(schema.shape) |->
              Entry(schema.shape[k].key,
                    zodToJsonSchema(schema.shape[k].schema))],
           RequiredKeys(schema.shape),
           <<>>, <<>>, "")
    [] schema.typeName = "ZodString" ->
         J("string", <<>>, <<>>, <<>>, <<>>, schema.description)
    [] schema.typeName = "ZodNumber" ->
         J("number", <<>>, <<>>, <<>>, <<>>, schema.description)
    [] schema.typeName = "ZodBoolean" ->
         J("boolean", <<>>, <<>>, <<>>, <<>>, "")
    [] schema.typeName = "ZodArray" ->
         J("array", <<>>, <<>>, <<zodToJsonSchema(schema.inner[1])>>, <<>>, "")
    [] schema.typeName = "ZodOptional" -> zodToJsonSchema(schema.inner[1])
    [] schema.typeName = "ZodEnum" ->
         J("string", <<>>, <<>>, <<>>, schema.values, "")
    [] schema.typeName = "ZodUnion" -> zodToJsonSchema(schema.options[1])
    [] OTHER -> J("object", <<>>, <<>>, <<>>, <<>>, "")

ZLeaves == {ZString("city"), ZNumber(""), ZBoolean, ZEnum, ZDate}

\* The schemas one level above the schemas of S.
ZWrap(S) ==
  {ZOptional(s) : s \in S}
    \cup {ZArray(s) : s \in S}
    \cup {ZUnion(<<s, ZNumber("")>>) : s \in S}
    \cup {ZObject(<<Entry("k1", s)>>) : s \in S}
    \cup {ZObject(<<Entry("k1", s), Entry("k2", ZOptional(ZNumber("")))>>) :
            s \in S}
    \cup {ZObject(<<Entry("k1", ZOptional(ZString("city"))), Entry("k2", s)>>) :
            s \in S}

RECURSIVE ZSchemas(_)
\* The schemas of nesting depth at most d.
ZSchemas(d) ==
  IF d = 0 THEN ZLeaves
  ELSE ZSchemas(d - 1) \cup ZWrap(ZSchemas(d - 1))

\* zodToJsonSchema(schema) is called and returns.
ZodConvert ==
  /\ zPc = "ready"
  /\ zOut' = zodToJsonSchema(zIn)
  /\ zPc' = "done"
  /\ UNCHANGED zIn
  /\ UNCHANGED <<tvars, uvars, rvars, nvars, ovars, gvars, wvars>>

\* ------------------------------------------------------ requestSuggestions
\* The texts the model produces for requestSuggestions: an object whose
\* suggestions array has up to two elements, with or without a trailing
\* newline.
SuggestTexts ==
  {t \in {<<"{">> \o els \o <<"}">> \o tail :
            els \in UNION {[1..n -> {"e", "x"}] : n \in 0..2},
            tail \in {<<>>, <<"s">>}} :
     Len(t) <= MaxContentLen}

\* delta.object?.suggestions when it is an array, else <<>>.
SuggestionItems(ev) ==
  IF ev.type = "object" /\ ev.depth = 0 /\ ev.base # <<>> /\ ev.base[1] = "sug"
  THEN Tail(ev.base) ELSE <<>>

\* The positions of the items that have their three fields.
CompleteItems(items) == {k \in 1..Len(items) : items[k] = "e"}

RECURSIVE ItemsInOrder(_, _)
\* The complete items from position k on, as suggestions, in order.
ItemsInOrder(items, k) ==
  IF k > Len(items) THEN <<>>
  ELSE (IF items[k] = "e" THEN <<[item |-> k]>> ELSE <<>>)
         \o ItemsInOrder(items, k + 1)

\* One iteration of `for await (const delta of stream)`: every complete
\* item of the object is written as data-suggestion and pushed.
SuggestConsume ==
  /\ sPc = "loop"
  /\ sPos < Len(oEvents)
  /\ LET new == ItemsInOrder(SuggestionItems(oEvents[sPos + 1]), 1)
     IN /\ sWrites' = sWrites \o new
        /\ suggestions' = suggestions \o new
  /\ sPos' = sPos + 1
  /\ UNCHANGED <<sPc, hasUser, saved>>
  /\ UNCHANGED <<tvars, uvars, rvars, nvars, xvars, evars, dvars, kvars,
                 lastWrite>>

\* The stream has ended: if (session.user?.id) await saveSuggestions(...);
\* return.
SuggestSave ==
  /\ sPc = "loop"
  /\ oPc = "done"
  /\ sPos = Len(oEvents)
  /\ saved' = IF hasUser THEN Append(saved, suggestions) ELSE saved
  /\ sPc' = "returned"
  /\ UNCHANGED <<hasUser, sPos, suggestions, sWrites>>
  /\ UNCHANGED <<tvars, uvars, rvars, nvars, xvars, evars, dvars, kvars,
                 lastWrite>>

\* The stream threw: requestSuggestions rejects.
SuggestThrow ==
  /\ sPc = "loop"
  /\ oPc = "thrown"
  /\ sPos = Len(oEvents)
  /\ sPc' = "thrown"
  /\ UNCHANGED <<hasUser, sPos, suggestions, sWrites, saved>>
  /\ UNCHANGED <<tvars, uvars, rvars, nvars, xvars, evars, dvars, kvars,
                 lastWrite>>

\* ------------------------------------ createFoundryUIMessageStreamResponse
\* stream.tee(): a chunk read from the stream is enqueued on both branches.
\* The tee reads the next chunk when a branch asks for one, and a branch
\* asks while its queue is below its high-water mark of one chunk.  q1 and
\* q2 are the numbers of chunks queued on the branches.
TeeShouldPullBoth(q1, q2) == q1 < 1 /\ q2 < 1

TeeShouldPull(q1, q2) == q1 < 1 \/ q2 < 1

\* The tee reads one chunk from the stream.  An errored stream has dropped
\* the chunks that were not yet read.
TeePull ==
  /\ ctrl # "errored"
  /\ teeFwd < Len(out)
  /\ TeeShouldPull(teeFwd - sideGot, teeFwd - Len(clientRecv))
  /\ teeFwd' = teeFwd + 1
  /\ UNCHANGED <<sideMode, sideGot, clientRecv, clientState>>
  /\ UNCHANGED <<tvars, uvars, rvars, nvars, xvars, svars, dvars, kvars,
                 lastWrite>>

\* The side consumer reads a chunk from its branch.
SideRead ==
  /\ sideMode = "reads"
  /\ sideGot < teeFwd
  /\ sideGot' = sideGot + 1
  /\ UNCHANGED <<sideMode, teeFwd, clientRecv, clientState>>
  /\ UNCHANGED <<tvars, uvars, rvars, nvars, xvars, svars, dvars, kvars,
                 lastWrite>>

\* consumeSseStream rejects: .catch logs the error; the branch is read no
\* more.
SideFail ==
  /\ sideMode = "reads"
  /\ sideMode' = "failed"
  /\ UNCHANGED <<teeFwd, sideGot, clientRecv, clientState>>
  /\ UNCHANGED <<tvars, uvars, rvars, nvars, xvars, svars, dvars, kvars,
                 lastWrite>>

\* The client reads a chunk from the response body.
ClientRead ==
  /\ clientState = "open"
  /\ Len(clientRecv) < teeFwd
  /\ clientRecv' = Append(clientRecv, out[Len(clientRecv) + 1])
  /\ UNCHANGED <<sideMode, teeFwd, sideGot, clientState>>
  /\ UNCHANGED <<tvars, uvars, rvars, nvars, xvars, svars, dvars, kvars,
                 lastWrite>>

\* The client reads the end of the body once the stream is closed and
\* every chunk was read.
ClientEnd ==
  /\ clientState = "open"
  /\ ctrl = "closed"
  /\ Len(clientRecv) = Len(out)
  /\ clientState' = "closed"
  /\ UNCHANGED <<sideMode, teeFwd, sideGot, clientRecv>>
  /\ UNCHANGED <<tvars, uvars, rvars, nvars, xvars, svars, dvars, kvars,
                 lastWrite>>

\* The error of the stream reaches the client's branch, whose queued
\* chunks are dropped.
ClientError ==
  /\ clientState = "open"
  /\ ctrl = "errored"
  /\ clientState' = "errored"
  /\ UNCHANGED <<sideMode, teeFwd, sideGot, clientRecv>>
  /\ UNCHANGED <<tvars, uvars, rvars, nvars, xvars, svars, dvars, kvars,
                 lastWrite>>

\* ---------------------------------------------- deployments of a project
\* The request handlers that run concurrently, one request each.
Handlers == {1, 2}
DeploymentNames == {"gpt-4o", "o3"}

Idle == [kind |-> "idle", pc |-> "idle", name |-> "", isDefault |-> FALSE,
         id |-> 0, snap |-> {}]

\* The ids (positions) of the documents of the project.
ProjectDocs == 1..Len(docs)

\* A POST request arrives: its body names a deployment and may ask for it
\* to be the default.
StartPost(h, name, isDefault) ==
  /\ reqs[h].kind = "idle"
  /\ reqs' = [reqs EXCEPT ![h] = [Idle EXCEPT !.kind = "POST",
                                              !.pc = "upsertQuery",
                                              !.name = name,
                                              !.isDefault = isDefault]]
  /\ UNCHANGED docs
  /\ UNCHANGED <<tvars, uvars, rvars, nvars, xvars, svars, evars, kvars,
                 lastWrite>>

\* A PUT request arrives: its body carries a deployment id.
StartPut(h, id) ==
  /\ reqs[h].kind = "idle"
  /\ reqs' = [reqs EXCEPT ![h] = [Idle EXCEPT !.kind = "PUT", !.pc = "read",
                                              !.id = id]]
  /\ UNCHANGED docs
  /\ UNCHANGED <<tvars, uvars, rvars, nvars, xvars, svars, evars, kvars,
                 lastWrite>>

\* upsertDeployment: the query for a document with the deployment's name.
UpsertQuery(h) ==
  /\ reqs[h].pc = "upsertQuery"
  /\ LET found == {k \in ProjectDocs : docs[k].name = reqs[h].name}
     IN reqs' = [reqs EXCEPT
                   ![h].id = IF found = {} THEN 0
                             ELSE CHOOSE k \in found : \A j \in found : k <= j,
                   ![h].pc = "upsertWrite"]
  /\ UNCHANGED docs
  /\ UNCHANGED <<tvars, uvars, rvars, nvars, xvars, svars, evars, kvars,
                 lastWrite>>

\* upsertDeployment: update of the document found, or add of a new one;
\* isDefault is among the fields written.  Then, if the body asked for the
\* default, setDefaultDeployment is called.
UpsertWrite(h) ==
  /\ reqs[h].pc = "upsertWrite"
  /\ LET r == reqs[h]
         id == IF r.id = 0 THEN Len(docs) + 1 ELSE r.id
     IN /\ docs' = IF r.id = 0
                   THEN Append(docs, [name |-> r.name, isDefault |-> r.isDefault])
                   ELSE [docs EXCEPT ![r.id].isDefault = r.isDefault]
        /\ reqs' = [reqs EXCEPT ![h].id = id,
                                ![h].pc = IF r.isDefault THEN "read" ELSE "done"]
  /\ UNCHANGED <<tvars, uvars, rvars, nvars, xvars, svars, evars, kvars,
                 lastWrite>>

\* setDefaultDeployment: the query for the documents of the project.
ReadSnapshot(h) ==
  /\ reqs[h].pc = "read"
  /\ reqs' = [reqs EXCEPT ![h].snap = ProjectDocs, ![h].pc = "commit"]
  /\ UNCHANGED docs
  /\ UNCHANGED <<tvars, uvars, rvars, nvars, xvars, svars, evars, kvars,
                 lastWrite>>

\* setDefaultDeployment: batch.commit() updates every document of the
\* snapshot with isDefault: doc.id === deploymentId.
CommitBatch(h) ==
  /\ reqs[h].pc = "commit"
  /\ docs' = [k \in 1..Len(docs) |->
                IF k \in reqs[h].snap
                THEN [docs[k] EXCEPT !.isDefault = (k = reqs[h].id)]
                ELSE docs[k]]
  /\ reqs' = [reqs EXCEPT ![h].pc = "done"]
  /\ UNCHANGED <<tvars, uvars, rvars, nvars, xvars, svars, evars, kvars,
                 lastWrite>>

\* ------------------------------------------------- getFoundryProjectClient
Endpoints == {"https://r/api/projects/p", "https://r/api/projects/q", "r"}
ApiKeys == {"", "k1", "k2"}

\* projectEndpoint && projectEndpoint.includes("/api/projects/")
ValidEndpoint(e) == e # "r"

\* `${projectEndpoint}:${apiKey ? "key" : "entra"}`
CacheKey(e, k) == <<e, IF k # "" THEN "key" ELSE "entra">>

\* A client, by the endpoint and the credential it was constructed with:
\* the API key, or "" for DefaultAzureCredential.
NewClient(e, k) == [endpoint |-> e, apiKey |-> k]

NoClient == [endpoint |-> "", apiKey |-> ""]

CacheHas(cache, key) == \E entry \in cache : entry.key = key

CacheGet(cache, key) == (CHOOSE entry \in cache : entry.key = key).client

NoGet == [seq |-> 0, endpoint |-> "", apiKey |-> "", kind |-> "",
          client |-> NoClient]

\* getFoundryProjectClient(projectEndpoint, apiKey)
GetFoundryProjectClient(e, k) ==
  /\ IF ~ValidEndpoint(e)
     THEN /\ lastGet' = [seq |-> IF lastGet.seq = 1 THEN 2 ELSE 1,
                         endpoint |-> e, apiKey |-> k, kind |-> "throw",
                         client |-> NoClient]
          /\ UNCHANGED clientCache
     ELSE IF CacheHas(clientCache, CacheKey(e, k))
     THEN /\ lastGet' = [seq |-> IF lastGet.seq = 1 THEN 2 ELSE 1,
                         endpoint |-> e, apiKey |-> k, kind |-> "return",
                         client |-> CacheGet(clientCache, CacheKey(e, k))]
          /\ UNCHANGED clientCache
     ELSE /\ lastGet' = [seq |-> IF lastGet.seq = 1 THEN 2 ELSE 1,
                         endpoint |-> e, apiKey |-> k, kind |-> "return",
                         client |-> NewClient(e, k)]
          /\ clientCache' = clientCache
               \cup {[key |-> CacheKey(e, k), client |-> NewClient(e, k)]}
  /\ UNCHANGED <<tvars, uvars, rvars, nvars, xvars, svars, evars, dvars,
                 lastWrite>>

\* clearClientCache()
ClearClientCache ==
  /\ clientCache' = {}
  /\ UNCHANGED lastGet
  /\ UNCHANGED <<tvars, uvars, rvars, nvars, xvars, svars, evars, dvars,
                 lastWrite>>

\* ---------------------------------------------------------- specifications
TranslatorOff ==
  /\ tPc = "off"
  /\ hasHandler = FALSE
  /\ currentToolCalls = <<>>
  /\ textBuffer = <<>>
  /\ reasoningBuffer = <<>>
  /\ events = <<>>
  /\ toolIdx = 1
  /\ pendingFinish = Chunk(FALSE, <<>>, <<>>, <<>>, "", AbsentUsage)
  /\ nChunks = 0
  /\ contentUsed = 0
  /\ inputs = <<>>
  /\ round = 0
  /\ seen = InitSeen
  /\ callLog = <<>>
  /\ outcomes = <<>>
  /\ upstreamFailed = FALSE

RouteOff ==
  /\ rPc = "off"
  /\ approval = FALSE
  /\ titlePending = FALSE
  /\ rCalls = <<>>
  /\ rIdx = 1
  /\ toolResults = <<>>
  /\ requests = <<>>
  /\ executed = <<>>
  /\ primaryCalls = <<>>
  /\ rN = 0
  /\ rFailed = ""
  /\ rFinish = ""

UIOff ==
  /\ uPc = "off"
  /\ hasOnFinish = FALSE
  /\ ctrl = "open"
  /\ out = <<>>
  /\ lateEnqueues = 0
  /\ pump = 0
  /\ messages = <<>>
  /\ currentMessage = <<>>
  /\ onFinishArgs = <<>>

NoCancel ==
  /\ cancelled = FALSE
  /\ rErrMsg = ""

ObjectOff ==
  /\ oPc = "off"
  /\ fullContent = <<>>
  /\ oEvents = <<>>
  /\ oText = <<>>
  /\ oSent = 0
  /\ oFrags = 0
  /\ oFinishes = 0
  /\ oParses = 0

RegistryOff ==
  /\ tools = <<>>
  /\ toolName = [obj \in ToolObjs |-> ""]
  /\ lastReg = [name \in ExecNames |-> ""]
  /\ invoked = {}
  /\ lastExec = NoExec

ZodOff ==
  /\ zPc = "off"
  /\ zIn = ZDate
  /\ zOut = J("", <<>>, <<>>, <<>>, <<>>, "")

SuggestOff ==
  /\ sPc = "off"
  /\ hasUser = FALSE
  /\ sPos = 0
  /\ suggestions = <<>>
  /\ sWrites = <<>>
  /\ saved = <<>>

TeeOff ==
  /\ sideMode = "never"
  /\ teeFwd = 0
  /\ sideGot = 0
  /\ clientRecv = <<>>
  /\ clientState = "open"

DeployOff ==
  /\ docs = <<>>
  /\ reqs = [h \in Handlers |-> Idle]

ClientCacheOff ==
  /\ clientCache = {}
  /\ lastGet = NoGet

NoWrite == lastWrite = [type |-> "", frames |-> <<>>]

RestOff == SuggestOff /\ TeeOff /\ DeployOff /\ ClientCacheOff /\ NoWrite

OriginalMessages == <<[id |-> "m1", role |-> "user", text |-> <<"q">>]>>

\* createFoundryUIMessageStream has been called and start() awaits execute.
InitStream(original) ==
  /\ uPc = "execute"
  /\ ctrl = "open"
  /\ out = <<>>
  /\ lateEnqueues = 0
  /\ pump = 0
  /\ messages = original
  /\ currentMessage = <<>>
  /\ onFinishArgs = <<>>

\* streamFoundryText over a stream that requests tools.
InitText ==
  /\ InitTranslator /\ UIOff /\ RouteOff /\ NoCancel /\ RestOff
  /\ ObjectOff /\ RegistryOff /\ ZodOff

NextText ==
  \/ \E c \in ToolChunks : RecvChunk(c)
  \/ YieldToolCall
  \/ \E v \in ToolValues : ToolResolve(v)
  \/ \E e \in ToolErrors : ToolThrow(e)
  \/ YieldFinish
  \/ StreamEnd
  \/ UpstreamFail

SpecText == InitText /\ [][NextText]_vars

\* streamFoundryText over a stream without tool-call fragments.
InitContent ==
  /\ InitTranslator /\ hasHandler = FALSE /\ UIOff /\ RouteOff
  /\ NoCancel /\ RestOff /\ ObjectOff /\ RegistryOff /\ ZodOff

NextContent ==
  \/ \E c \in ContentChunks(MaxContentLen - contentUsed) : RecvChunk(c)
  \/ StreamEnd
  \/ UpstreamFail

SpecContent == InitContent /\ [][NextContent]_vars

\* createFoundryUIMessageStream with an arbitrary execute.
InitUI ==
  /\ TranslatorOff /\ RouteOff
  /\ NoCancel /\ RestOff /\ ObjectOff /\ RegistryOff /\ ZodOff
  /\ hasOnFinish \in BOOLEAN
  /\ \E original \in {<<>>, OriginalMessages} : InitStream(original)

NextUI ==
  \/ \E chunk \in WriterChunks : ExecWrite(chunk)
  \/ \E n \in 1..MaxFrames : ExecMerge(n)
  \/ PumpStep
  \/ ExecReturn
  \/ ExecThrow
  \/ \E ok \in BOOLEAN : OnFinishDone(ok)

SpecUI == InitUI /\ [][NextUI]_vars

\* One turn of the chat route: createFoundryUIMessageStream with the
\* route's execute, onFinish and onError.
InitRoute ==
  /\ TranslatorOff
  /\ NoCancel /\ RestOff /\ ObjectOff /\ RegistryOff /\ ZodOff
  /\ hasOnFinish = TRUE
  /\ approval \in BOOLEAN
  /\ titlePending \in {t \in BOOLEAN : t => ~approval}
  /\ InitStream(IF approval THEN OriginalMessages ELSE <<>>)
  /\ rPc = "create"
  /\ rCalls = <<>>
  /\ rIdx = 1
  /\ toolResults = <<>>
  /\ requests = <<>>
  /\ executed = <<>>
  /\ primaryCalls = <<>>
  /\ rN = 0
  /\ rFailed = ""
  /\ rFinish = ""

NextRoute ==
  \/ RouteCreate
  \/ \E c \in RouteChunks : RoutePrimaryChunk(c)
  \/ RoutePrimaryEnd
  \/ \E outcome \in {"resolve", "throw"} : RouteTool(outcome)
  \/ RouteContinue
  \/ \E c \in RouteChunks : RouteContChunk(c)
  \/ RouteContEnd
  \/ \E ok \in BOOLEAN : RouteTitle(ok)
  \/ \E message \in UpstreamMessages : RouteUpstreamFail(message)
  \/ ClientCancel
  \/ ExecReturn
  \/ \E ok \in BOOLEAN : OnFinishDone(ok)

SpecRoute == InitRoute /\ [][NextRoute]_vars

\* The same turn under the scheduling the code provides: start() goes on
\* once execute has returned, and a create(...) request, the title and the
\* store are taken to answer.  The code sets no timer and passes no abort
\* signal: nothing makes a stream deliver its next chunk or its end, and
\* nothing makes a tool complete.
SpecRouteLive ==
  /\ InitRoute /\ [][NextRoute]_vars
  /\ WF_vars(ExecReturn)
  /\ WF_vars(RouteCreate)
  /\ WF_vars(RouteContinue)
  /\ WF_vars(\E ok \in BOOLEAN : RouteTitle(ok))
  /\ WF_vars(\E ok \in BOOLEAN : OnFinishDone(ok))

\* streamFoundryObject over a stream delivering a text in fragments.
InitObject ==
  /\ TranslatorOff /\ UIOff /\ RouteOff /\ NoCancel /\ RestOff /\ RegistryOff /\ ZodOff
  /\ oPc = "stream"
  /\ fullContent = <<>>
  /\ oEvents = <<>>
  /\ oText \in UNION {[1..n -> JsonAlphabet] : n \in 1..MaxContentLen}
  /\ oSent = 0
  /\ oFrags = 0
  /\ oFinishes = 0
  /\ oParses = 0

NextObject ==
  \/ \E c \in ObjectChunks : ObjectChunk(c)
  \/ ObjectStreamEnd
  \/ ObjectUpstreamFail

SpecObject == InitObject /\ [][NextObject]_vars

\* A ToolRegistry, from construction.
InitRegistry ==
  /\ TranslatorOff /\ UIOff /\ RouteOff /\ NoCancel /\ RestOff /\ ObjectOff /\ ZodOff
  /\ RegistryOff

NextRegistry ==
  \/ \E name \in RegNames, obj \in ToolObjs : Register(name, obj)
  \/ \E name \in ExecNames, input \in ToolInputs : RegExecute(name, input)

SpecRegistry == InitRegistry /\ [][NextRegistry]_vars

\* zodToJsonSchema applied to schemas of bounded depth.
InitZod ==
  /\ TranslatorOff /\ UIOff /\ RouteOff /\ NoCancel /\ RestOff /\ ObjectOff /\ RegistryOff
  /\ zPc = "ready"
  /\ zIn \in ZSchemas(MaxDepth)
  /\ zOut = J("", <<>>, <<>>, <<>>, <<>>, "")

NextZod == ZodConvert

SpecZod == InitZod /\ [][NextZod]_vars

\* requestSuggestions over streamFoundryObject.
InitSuggest ==
  /\ TranslatorOff /\ UIOff /\ RouteOff /\ NoCancel /\ RegistryOff /\ ZodOff
  /\ TeeOff /\ DeployOff /\ ClientCacheOff /\ NoWrite
  /\ oPc = "stream"
  /\ fullContent = <<>>
  /\ oEvents = <<>>
  /\ oText \in SuggestTexts
  /\ oSent = 0
  /\ oFrags = 0
  /\ oFinishes = 0
  /\ oParses = 0
  /\ sPc = "loop"
  /\ hasUser \in BOOLEAN
  /\ sPos = 0
  /\ suggestions = <<>>
  /\ sWrites = <<>>
  /\ saved = <<>>

NextSuggest ==
  \/ \E c \in ObjectChunks : ObjectChunk(c)
  \/ ObjectStreamEnd
  \/ ObjectUpstreamFail
  \/ SuggestConsume
  \/ SuggestSave
  \/ SuggestThrow

SpecSuggest == InitSuggest /\ [][NextSuggest]_vars

\* The response of a stream whose execute writes text and errors, tee'd
\* between the client and a side consumer.  The client keeps reading, the
\* tee keeps forwarding and start() goes on once execute has returned;
\* nothing is assumed of the side consumer.
InitTee ==
  /\ TranslatorOff /\ RouteOff /\ NoCancel /\ ObjectOff /\ RegistryOff /\ ZodOff
  /\ SuggestOff /\ DeployOff /\ ClientCacheOff /\ NoWrite
  /\ hasOnFinish \in BOOLEAN
  /\ InitStream(<<>>)
  /\ sideMode \in {"never", "reads"}
  /\ teeFwd = 0
  /\ sideGot = 0
  /\ clientRecv = <<>>
  /\ clientState = "open"

TeeChunks == {WChunk("text-part", <<"a">>), WChunk("error", <<"e">>)}

NextTee ==
  \/ \E chunk \in TeeChunks : ExecWrite(chunk)
  \/ ExecReturn
  \/ ExecThrow
  \/ \E ok \in BOOLEAN : OnFinishDone(ok)
  \/ TeePull
  \/ SideRead
  \/ SideFail
  \/ ClientRead
  \/ ClientEnd
  \/ ClientError

SpecTee ==
  /\ InitTee /\ [][NextTee]_vars
  /\ WF_vars(TeePull)
  /\ WF_vars(ClientRead)
  /\ WF_vars(ClientEnd)
  /\ WF_vars(ClientError)

\* Concurrent requests to the deployments route of one project that has a
\* default deployment.
InitDeploy ==
  /\ TranslatorOff /\ UIOff /\ RouteOff /\ NoCancel /\ ObjectOff /\ RegistryOff
  /\ ZodOff /\ SuggestOff /\ TeeOff /\ ClientCacheOff /\ NoWrite
  /\ docs = <<[name |-> "gpt-4o", isDefault |-> TRUE]>>
  /\ reqs = [h \in Handlers |-> Idle]

NextDeploy ==
  \/ \E h \in Handlers, name \in DeploymentNames, isDefault \in BOOLEAN :
       StartPost(h, name, isDefault)
  \/ \E h \in Handlers, id \in ProjectDocs : StartPut(h, id)
  \/ \E h \in Handlers : UpsertQuery(h)
  \/ \E h \in Handlers : UpsertWrite(h)
  \/ \E h \in Handlers : ReadSnapshot(h)
  \/ \E h \in Handlers : CommitBatch(h)

SpecDeploy == InitDeploy /\ [][NextDeploy]_vars

\* The client cache of the module, from load.
InitClientCache ==
  /\ TranslatorOff /\ UIOff /\ RouteOff /\ NoCancel /\ ObjectOff /\ RegistryOff
  /\ ZodOff /\ SuggestOff /\ TeeOff /\ DeployOff /\ NoWrite
  /\ ClientCacheOff

NextClientCache ==
  \/ \E e \in Endpoints, k \in ApiKeys : GetFoundryProjectClient(e, k)
  \/ ClearClientCache

SpecClientCache == InitClientCache /\ [][NextClientCache]_vars

\* ----------------------------------------------- streamFoundryText: claims
IsType(i, type) == events[i].type = type

\* Position of the first finish event after event i, 0 when there is none.
NextFinish(i) ==
  LET P == {j \in (i + 1)..Len(events) : IsType(j, "finish")}
  IN IF P = {} THEN 0 ELSE CHOOSE j \in P : \A k \in P : j <= k

\* The deltas of the events of one type, concatenated in yield order.
Payloads(type) ==
  Concat([k \in 1..Len(events) |->
            IF IsType(k, type) THEN events[k].delta ELSE <<>>])

\* C1: every tool-call event that a finish event follows has, between itself
\* and that finish event, exactly one tool-result event carrying its id.
C1_EveryToolCallHasOneResult ==
  \A i \in 1..Len(events) :
    (IsType(i, "tool-call") /\ NextFinish(i) # 0)
      => Cardinality({k \in (i + 1)..(NextFinish(i) - 1) :
                        IsType(k, "tool-result")
                          /\ events[k].id = events[i].id}) = 1

\* C4: a throwing tool handler never makes the generator throw; its call
\* gets a tool-result with isError true and the exception's message, the
\* remaining accumulated calls are still yielded and the finish event follows.
C4_ThrowBecomesErrorResult ==
  /\ tPc = "thrown" => upstreamFailed
  /\ \A k \in 1..Len(outcomes) :
       LET o == outcomes[k]
           rest == o.n - o.k
       IN o.kind = "throw"
            => /\ o.ev <= Len(events)
               /\ IsType(o.ev, "tool-result")
               /\ events[o.ev].isError
               /\ events[o.ev].id = o.id
               /\ o.value.isErrorObject
                    => events[o.ev].result = o.value.message
               /\ tPc \in {"stream", "done", "thrown"}
                    => /\ Len(events) >= o.ev + 2 * rest + 1
                       /\ IsType(o.ev + 2 * rest + 1, "finish")
                       /\ \A r \in 1..rest :
                            IsType(o.ev + 2 * r - 1, "tool-call")

\* A handler threw an Error for a call that was not the last one, and the
\* generator returned.
C4_Witness ==
  /\ tPc = "done"
  /\ \E k \in 1..Len(outcomes) :
       /\ outcomes[k].kind = "throw"
       /\ outcomes[k].value.isErrorObject
       /\ outcomes[k].k < outcomes[k].n

\* The fragments received for a position were well formed: exactly one
\* identifier-bearing fragment, and no argument text before it.
WellFormed(sn) == sn.ids = 1 /\ ~sn.early

\* C6: the arguments of a tool-call event of a well-formed position are the
\* concatenation, in arrival order, of all argument text received for it.
C6_ArgumentsAreConcatenation ==
  \A k \in 1..Len(callLog) :
    WellFormed(callLog[k].seen)
      => events[callLog[k].ev].arguments = callLog[k].seen.args

\* A tool-call event was yielded whose arguments came in two fragments, the
\* first of them the identifier-bearing one.
C6_Witness ==
  \E k \in 1..Len(callLog) :
    /\ WellFormed(callLog[k].seen)
    /\ callLog[k].seen.args = <<"{", "}">>
    /\ events[callLog[k].ev].type = "tool-call"

\* C8: the tool-call events yielded for one finish_reason chunk are in
\* ascending order of position.
C8_EmittedInPositionOrder ==
  \A i, j \in 1..Len(callLog) :
    (i < j /\ callLog[i].round = callLog[j].round)
      => callLog[i].index < callLog[j].index

\* ------------------------------------------------- reasoning extraction
AllContent == Concat([k \in 1..Len(inputs) |-> inputs[k].content])

\* C7, as claimed: once a stream without reasoning_content has ended, the
\* text-delta payloads are the whole input text without its complete spans,
\* and the reasoning-delta payloads are the trimmed contents of those spans
\* joined by blank lines.
C7_TextIsInputMinusSpans ==
  (tPc = "done" /\ \A k \in 1..Len(inputs) : inputs[k].reasoning_content = <<>>)
    => /\ Payloads("text-delta") = RemoveSpans(AllContent)
       /\ Payloads("reasoning-delta")
            = Join(SpanInners(AllContent), <<"nn">>)

\* The visible text of one fragment: the fragment itself when it has no
\* complete span, or when nothing but whitespace is left of it and of the
\* contents of its spans; else the fragment without its spans, trimmed.
VisibleOf(f) ==
  IF Spans(f) = <<>> THEN f
  ELSE IF Trim(RemoveSpans(f)) = <<>> /\ Join(SpanInners(f), <<"nn">>) = <<>>
       THEN f
       ELSE Trim(RemoveSpans(f))

\* The reasoning of one fragment: the trimmed contents of its complete
\* spans, joined by blank lines.
ReasoningOf(f) == Join(SpanInners(f), <<"nn">>)

\* C7, amended: the text-delta payloads are the visible texts of the
\* fragments, fragment by fragment; the reasoning-delta payloads are, chunk
\* by chunk, the reasoning_content followed by the reasoning of the fragment.
C7_TextIsPerFragmentVisible ==
  /\ Payloads("text-delta")
       = Concat([k \in 1..Len(inputs) |-> VisibleOf(inputs[k].content)])
  /\ Payloads("reasoning-delta")
       = Concat([k \in 1..Len(inputs) |->
                   inputs[k].reasoning_content
                     \o ReasoningOf(inputs[k].content)])

\* The stream has ended after a fragment whose span was removed and whose
\* remainder lost whitespace to trimming.
C7_Witness ==
  /\ tPc = "done"
  /\ \E k \in 1..Len(inputs) :
       /\ Spans(inputs[k].content) # <<>>
       /\ Trim(RemoveSpans(inputs[k].content)) # <<>>
       /\ Trim(RemoveSpans(inputs[k].content)) # RemoveSpans(inputs[k].content)

\* ----------------------------------------------------- chat route: claims
FramesOf(event) == {i \in 1..Len(out) : out[i].event = event}

InfoTexts ==
  {AdditionalToolText(n) : n \in {"getWeather", "createDocument", "nope"}}

\* C2: a turn issues at most two upstream requests, and once the
\* continuation request is issued no tool is executed and no request is
\* made; while the continuation stream is read only text-parts (or the
\* error of a failed stream) are written.
C2_SingleContinuation ==
  /\ [](Len(requests) <= 2)
  /\ [][Len(requests) = 2
          => /\ executed' = executed
             /\ requests' = requests
             /\ rPc = "continuation"
                  => \A i \in (Len(out) + 1)..Len(out') :
                       out'[i].event \in {"text-delta", "error"}]_vars

\* The turn has closed after a continuation stream that finished with
\* tool_calls for an accumulated call, following an executed primary call.
C2_Witness ==
  /\ uPc = "closed"
  /\ Len(requests) = 2
  /\ Len(executed) >= 1
  /\ \E i \in 1..Len(out) : out[i].text \in InfoTexts

\* C3: when the continuation request is issued every accumulated call has
\* a recorded result, and the request's messages are the original ones, one
\* assistant message listing the calls, and one tool message per call with
\* the call's id, in the order of the calls.
C3_ContinuationMessages ==
  \A r \in 2..Len(requests) :
    LET req == requests[r]
        b == Len(requests[1])
        n == Len(primaryCalls)
    IN /\ Len(toolResults) = n
       /\ Len(req) = b + 1 + n
       /\ SubSeq(req, 1, b) = requests[1]
       /\ req[b + 1].role = "assistant"
       /\ Len(req[b + 1].tool_calls) = n
       /\ \A k \in 1..n :
            /\ req[b + 1].tool_calls[k].id = primaryCalls[k].id
            /\ req[b + 1].tool_calls[k].name = primaryCalls[k].name
            /\ req[b + 1].tool_calls[k].arguments = primaryCalls[k].arguments
            /\ req[b + 1 + k].role = "tool"
            /\ req[b + 1 + k].tool_call_id = primaryCalls[k].id

\* The continuation request was issued for two calls, one of which failed.
C3_Witness ==
  /\ Len(requests) = 2
  /\ Len(primaryCalls) = 2
  /\ \E k \in 1..Len(toolResults) : toolResults[k].content # "result"
  /\ \E k \in 1..Len(toolResults) : toolResults[k].content = "result"

\* C5: when the upstream source has failed, the outbound stream holds
\* exactly one error event and no text-delta, data or tool event after it.
C5_SingleErrorOnUpstreamFailure ==
  rFailed # ""
    => /\ Cardinality(FramesOf("error")) = 1
       /\ \A i \in FramesOf("error") :
            \A j \in (i + 1)..Len(out) :
              out[j].event \notin {"text-delta", "reasoning-delta", "data",
                                   "tool-call", "tool-result"}

\* C9: a closed turn whose primary stream delivered one call and finished
\* with tool_calls, and whose tool resolved, has sent the tool-call event,
\* then the tool-result event, then the continuation text, then one finish.
C9_ScenarioEventOrder ==
  (/\ uPc = "closed"
   /\ rFailed = ""
   /\ rFinish = "tool_calls"
   /\ Len(primaryCalls) = 1
   /\ Len(executed) = 1
   /\ executed[1].outcome = "resolve")
    => /\ Cardinality(FramesOf("tool-call")) = 1
       /\ Cardinality(FramesOf("tool-result")) = 1
       /\ \A i \in FramesOf("tool-call") :
            \A j \in FramesOf("tool-result") :
              /\ i < j
              /\ \A k \in FramesOf("text-delta") : j < k
       /\ FramesOf("finish") = {Len(out)}

\* ------------------------------------------- UI message stream: claims
\* C10: once start() has closed the controller after execute returned, the
\* finish frame is the last chunk enqueued and no enqueue was attempted on
\* the closed controller.
C10_FinishIsLastEnqueue ==
  uPc = "closed"
    => /\ out[Len(out)].event = "finish"
       /\ lateEnqueues = 0

\* ------------------------------------------------------- onFinish: claims
\* The payloads of the text-parts written so far, in write order.
TextPartsWritten ==
  Concat([i \in 1..Len(out) |->
            IF out[i].event = "text-delta" THEN out[i].text ELSE <<>>])

\* C11: onFinish is invoked at most once, and the list it receives is the
\* original messages followed by one assistant message holding all the text
\* written during the turn, or by nothing when no text was written.
C11_OnFinishGetsWrittenText ==
  /\ Len(onFinishArgs) <= 1
  /\ \A k \in 1..Len(onFinishArgs) :
       onFinishArgs[k]
         = (IF approval THEN OriginalMessages ELSE <<>>)
             \o (IF TextPartsWritten = <<>> THEN <<>>
                 ELSE <<[NewMessage EXCEPT !.text = TextPartsWritten]>>)

\* ------------------------------------------- streamFoundryObject: claims
ObjectEvents(evs) == SelectSeq(evs, LAMBDA e : e.type = "object")

\* The events of the run that delivers the text in one fragment, then the
\* finish chunk.
SingleFragmentEvents(text) ==
  LET a == ObjectStep(<<>>, Chunk(TRUE, <<>>, text, <<>>, "", AbsentUsage))
      b == ObjectStep(a.fullContent,
                      Chunk(TRUE, <<>>, <<>>, <<>>, "stop", AbsentUsage))
  IN a.events \o b.events

\* The whole of oText was delivered, then one finish chunk, and the stream
\* ended.
DeliveredThenFinished ==
  /\ oPc = "done"
  /\ oSent = Len(oText)
  /\ oFinishes = 1
  /\ oEvents # <<>>
  /\ oEvents[Len(oEvents)].type = "finish"

C13_NoExceptionTextToClient ==
  rFailed # ""
    => \A i \in FramesOf("error") : out[i].text # <<rErrMsg>>

\* C14: once the client has cancelled, no further upstream chunk is
\* consumed, no tool execution starts and no continuation request is issued.
C14_CancelStopsTheTurn ==
  [][cancelled => /\ rN' = rN
                  /\ executed' = executed
                  /\ Len(requests') <= 1 \/ requests' = requests]_vars

\* C15: every turn eventually closes or errors its outbound stream.
C15_TurnTerminates == <>(uPc \in {"closed", "errored"})

\* C19: when the primary stream finished with a reason other than
\* tool_calls, no tool is executed and no continuation request is issued.
C19_ToolsOnlyOnToolCallsFinish ==
  rFinish \notin {"", "tool_calls"}
    => /\ executed = <<>>
       /\ Len(requests) <= 1

\* ------------------------------------------------- ToolRegistry: claims
\* C16: execute(name, input) on a name never registered rejects with the
\* tool-not-found error and calls no tool; on a registered name its outcome
\* is that of the execute function of the tool last registered under the
\* name, applied to the input; either way the registry is left as it was.
C16_ExecuteUsesRegisteredTool ==
  /\ [](lastExec.seq # 0
          => IF lastExec.registered = ""
             THEN /\ lastExec.outcome.kind = "reject"
                  /\ lastExec.outcome.value = <<"Tool not found", lastExec.name>>
                  /\ lastExec.outcome.called = ""
             ELSE lastExec.outcome
                    = ExecuteOf(lastExec.registered, lastExec.input))
  /\ [][lastExec' # lastExec
          => /\ tools' = tools
             /\ toolName' = toolName
             /\ lastExec'.registered = "" => invoked' = invoked]_vars

\* An execute of an unregistered name was rejected on a registry that holds
\* a tool registered in place of another and already executed.
C16_Witness ==
  /\ lastExec.seq # 0
  /\ lastExec.registered = ""
  /\ lastExec.outcome.kind = "reject"
  /\ \E k \in 1..Len(tools) :
       /\ tools[k].tool \in invoked
       /\ \E obj \in ToolObjs \ {tools[k].tool} : toolName[obj] = tools[k].name

\* ----------------------------------------------- zodToJsonSchema: claims
RECURSIVE Conforms(_, _)
\* The JSON Schema j is a conversion of the Zod schema z in what concerns
\* objects, optionals, unions and arrays.
Conforms(z, j) ==
  CASE z.typeName = "ZodOptional" -> Conforms(z.inner[1], j)
    [] z.typeName = "ZodUnion" -> Conforms(z.options[1], j)
    [] z.typeName = "ZodArray" ->
         /\ j.type = "array"
         /\ Len(j.items) = 1
         /\ Conforms(z.inner[1], j.items[1])
    [] z.typeName = "ZodObject" ->
         /\ j.type = "object"
         /\ Len(j.properties) = Len(z.shape)
         /\ \A k \in 1..Len(z.shape) :
              /\ j.properties[k].key = z.shape[k].key
              /\ Conforms(z.shape[k].schema, j.properties[k].schema)
         /\ {j.required[k] : k \in 1..Len(j.required)}
              = {z.shape[k].key : k \in {i \in 1..Len(z.shape) :
                   z.shape[i].schema.typeName # "ZodOptional"}}
         /\ \A a, b \in 1..Len(j.required) :
              a # b => j.required[a] # j.required[b]
    [] OTHER -> TRUE

\* C17: the schema returned for an object lists in required exactly its
\* non-optional keys, an optional converts as its inner type, a union as
\* its first alternative, at every level of nesting.
C17_RequiredOptionalUnion == zPc = "done" => Conforms(zIn, zOut)

\* An object was converted that has an optional key and a key holding an
\* object, an array or a union.
C17_Witness ==
  /\ zPc = "done"
  /\ zIn.typeName = "ZodObject"
  /\ \E k \in 1..Len(zIn.shape) : zIn.shape[k].schema.typeName = "ZodOptional"
  /\ \E k \in 1..Len(zIn.shape) :
       zIn.shape[k].schema.typeName \in {"ZodObject", "ZodArray", "ZodUnion"}
  /\ zOut.required # <<>>

\* ------------------------------------------ streamFoundryText: more claims
IsPrefix(a, b) == Len(a) <= Len(b) /\ SubSeq(b, 1, Len(a)) = a

\* C18: an entry of the accumulation table keeps its identifier and its
\* function name, and its argument text only grows by appending.
C18_IdentifierNeverReassigned ==
  [][\A k \in 1..Len(currentToolCalls) :
       LET old == currentToolCalls[k]
       IN /\ MapHas(currentToolCalls', old.index)
          /\ LET new == currentToolCalls'[MapPos(currentToolCalls', old.index)]
             IN /\ new.id = old.id
                /\ new.name = old.name
                /\ IsPrefix(old.arguments, new.arguments)]_vars

\* C20: when a stream that delivered chunks has ended, exactly one finish
\* event was yielded and it is the last event.
C20_EndsWithOneFinish ==
  (tPc = "done" /\ nChunks > 0)
    => /\ Cardinality({i \in 1..Len(events) : IsType(i, "finish")}) = 1
       /\ IsType(Len(events), "finish")

\* ------------------------------------------------ terminal frames: claims
\* C21: the outbound stream of a chat turn that is over holds exactly one
\* terminal frame, finish or error, and it is the last frame; no error frame
\* is followed by a finish frame.
C21_OneTerminalFrame ==
  uPc \in {"closed", "errored"}
    => FramesOf("finish") \cup FramesOf("error") = {Len(out)}

\* ------------------------------------ streamFoundryText: thinking spans
\* The events a step has appended to the events yielded so far.
NewEvents == SubSeq(events', Len(events) + 1, Len(events'))

\* C22: every text-delta yielded for a content fragment that contains a
\* complete thinking span is the fragment without its complete spans,
\* trimmed, and so contains no complete span.
C22_TextDeltaHasNoSpan ==
  [][(/\ Len(inputs') = Len(inputs) + 1
      /\ Spans(inputs'[Len(inputs')].content) # <<>>)
       => \A i \in 1..Len(NewEvents) :
            NewEvents[i].type = "text-delta"
              => /\ NewEvents[i].delta
                      = Trim(RemoveSpans(inputs'[Len(inputs')].content))
                 /\ Spans(NewEvents[i].delta) = <<>>]_vars

\* ---------------------------------- streamFoundryText: tool-call fragments
\* C23: a chunk that carries no content, no reasoning and no finish reason
\* yields no event, whatever tool-call fragments it carries; and a
\* tool-call event is yielded only while the calls of a chunk whose finish
\* reason is tool_calls are being yielded.
C23_FragmentsYieldNothing ==
  [][/\ (nChunks' = nChunks + 1 /\ round' = round /\ inputs' = inputs)
          => events' = events
     /\ (\E i \in 1..Len(NewEvents) : NewEvents[i].type = "tool-call")
          => (tPc = "calls" /\ pendingFinish.finish_reason = "tool_calls")]_vars

\* A tool-call event was yielded for a call whose fragments had arrived in
\* a chunk before the finish chunk, and it is the first event of the
\* stream: the fragments yielded nothing.
C23_Witness ==
  /\ Len(callLog) >= 1
  /\ nChunks >= 2
  /\ events # <<>>
  /\ events[1].type = "tool-call"
  /\ callLog[1].ev = 1

\* ------------------------------- streamFoundryObject: finish, invalid JSON
\* C24: a finish chunk that leaves a buffer that is not valid JSON makes one
\* parse attempt of its own (after the attempt for its content, if it has
\* any), yields no object event, does not throw, and yields one finish
\* event, which is the last event.
C24_InvalidAtFinish ==
  [][(oFinishes' = oFinishes + 1 /\ ~ParseJSON(fullContent').ok)
       => /\ oEvents' = Append(oEvents, ObjectFinishEv)
          /\ oPc' = "stream"
          /\ oParses' = oParses + 1
                          + (IF fullContent' # fullContent THEN 1 ELSE 0)]_vars

\* The stream ended after one finish chunk that found a non-empty buffer
\* that is not valid JSON: the finish event is the only event.
C24_Witness ==
  /\ oPc = "done"
  /\ oFinishes = 1
  /\ fullContent # <<>>
  /\ ~ParseJSON(fullContent).ok
  /\ oEvents = <<ObjectFinishEv>>
  /\ oParses = oFrags + 1

\* ------------------------------------------------- writer.write: claims
\* The SSE event type of the frame for a chunk of a type.
EventOf(type) ==
  CASE type = "text-part" -> "text-delta"
    [] type = "reasoning-part" -> "reasoning-delta"
    [] type = "error" -> "error"
    [] OTHER -> "data"

\* C25: the last call of writer.write with a text, reasoning, error or
\* data-* chunk enqueued exactly one frame, of the event type of the chunk.
C25_OneFramePerWrite ==
  lastWrite.type \in {"text-part", "reasoning-part", "error",
                      "data-chat-title", "data-textDelta", "data-kind",
                      "data-codeDelta"}
    => /\ Len(lastWrite.frames) = 1
       /\ lastWrite.frames[1].event = EventOf(lastWrite.type)

\* ------------------------------------------------ requestSuggestions: claims
\* The suggestions of the complete elements of the array in the model's
\* whole output.
FinalSuggestions ==
  ItemsInOrder(SuggestionItems(ObjectEv(ParseJSON(oText))), 1)

\* C26: when the model's output, a valid object, was delivered in any
\* number of fragments and followed by a finish chunk, requestSuggestions
\* has written one data-suggestion per element of the final array, once
\* each, and has saved the same suggestions for a signed-in user.
C26_EachElementOnce ==
  (sPc = "returned" /\ DeliveredThenFinished /\ ParseJSON(oText).ok)
    => /\ sWrites = FinalSuggestions
       /\ hasUser => saved = <<FinalSuggestions>>

\* ------------------------------- createFoundryUIMessageStreamResponse: claims
\* C27: whatever the side consumer does (reads its branch, never reads it,
\* fails), the client has received a prefix of the chunks of the stream, it
\* sees an error only when the stream itself errored, and once the stream
\* is closed the client gets every chunk and the end of the body.
C27_ClientIndependentOfSide ==
  /\ [](/\ clientRecv = SubSeq(out, 1, Len(clientRecv))
        /\ clientState = "errored" => ctrl = "errored"
        /\ clientState = "closed" => clientRecv = out)
  /\ (ctrl = "closed" ~> (clientState = "closed" /\ clientRecv = out))

\* The side consumer failed with chunks unread on its branch, and the
\* client has received the whole of a stream of several chunks.
C27_Witness ==
  /\ sideMode = "failed"
  /\ sideGot < teeFwd
  /\ Len(out) >= 2
  /\ clientState = "closed"
  /\ clientRecv = out

\* ------------------------------------------------- deployments: claims
\* C28: once every request that has arrived has completed, at most one
\* deployment of the project has isDefault true.
C28_AtMostOneDefault ==
  (\A h \in Handlers : reqs[h].pc \in {"idle", "done"})
    => Cardinality({k \in ProjectDocs : docs[k].isDefault}) <= 1

\* ------------------------------------------------- ToolRegistry: names
\* C29: for every registered name n, the descriptor that get(n) returns
\* has name n, and getOpenAIFunctions has exactly one entry whose
\* function.name is n.
C29_NamesAgree ==
  \A n \in RegNames :
    RegHas(tools, n)
      => /\ toolName[RegGet(tools, n)] = n
         /\ Cardinality({k \in 1..Len(getOpenAIFunctions(tools)) :
                           getOpenAIFunctions(tools)[k].name = n}) = 1

\* ---------------------------------------- getFoundryProjectClient: claims
\* C30: the client that the last call of getFoundryProjectClient returned
\* was constructed for the endpoint and with the apiKey of that call.
C30_ClientUsesSuppliedKey ==
  lastGet.kind = "return"
    => /\ lastGet.client.endpoint = lastGet.endpoint
       /\ lastGet.client.apiKey = lastGet.apiKey

====
